---------------------------- MODULE Spec2Model ----------------------------
(***************************************************************************)
(* Model of the smart-home telemetry backend: the ingestion handler, the   *)
(* Device Registry upsert, the live-update broadcast and the paginated     *)
(* query handlers of backend/src/controllers/TelemetryController.ts,       *)
(* backend/src/websocket.ts and the two mongoose models.                   *)
(***************************************************************************)
EXTENDS Integers, Sequences, FiniteSets, TLC

(***************************************************************************)
(* JSON values of a request body.  A field value carries its JavaScript    *)
(* type; str holds a string's text (or "NaN" for the number NaN) and num a *)
(* number's value, so that every value has the same shape.                 *)
(***************************************************************************)
JStr(s) == [type |-> "string", str |-> s, num |-> 0]
JNum(n) == [type |-> "number", str |-> "", num |-> n]
JNaN == [type |-> "number", str |-> "NaN", num |-> 0]
JUndef == [type |-> "undefined", str |-> "", num |-> 0]

\* An object item of a batch, and the items that are no objects (null, a
\* bare number or string): their property reads give undefined.
Obj(d, t, r, u, l, k) ==
    [kind |-> "object", deviceId |-> d, timestamp |-> t, reading |-> r,
     unit |-> u, location |-> l, deviceType |-> k]
NonObj(k) ==
    [kind |-> k, deviceId |-> JUndef, timestamp |-> JUndef, reading |-> JUndef,
     unit |-> JUndef, location |-> JUndef, deviceType |-> JUndef]

(***************************************************************************)
(* new Date(string).getTime() on the date strings of the model: the        *)
(* milliseconds since the epoch, or NaN (valid = FALSE) for a string that  *)
(* is no date.                                                             *)
(***************************************************************************)
HourMs == 3600000

DateParse(s) ==
    CASE s = "1970-01-01T00:00:00.000Z" -> [valid |-> TRUE, ms |-> 0]
      [] s = "1970-01-01T01:00:00.000Z" -> [valid |-> TRUE, ms |-> HourMs]
      [] s = "1970-01-01T02:00:00.000Z" -> [valid |-> TRUE, ms |-> 2 * HourMs]
      [] s = "1970-01-01T03:00:00.000Z" -> [valid |-> TRUE, ms |-> 3 * HourMs]
      [] OTHER -> [valid |-> FALSE, ms |-> 0]

\* !x for x = new Date(s).getTime(): NaN and 0 are the falsy numbers.
FalsyTime(t) == ~t.valid \/ t.ms = 0

\* s.trim().length === 0 on the strings of the model (none has leading or
\* trailing white space unless it is all white space).
TrimIsEmpty(s) == s \in {"", " ", "  "}

\* typeof v !== "string" || v.trim().length === 0
NotNonEmptyString(v) == v.type # "string" \/ TrimIsEmpty(v.str)

(***************************************************************************)
(* validateReading: the error message, or "null" when the item passes.     *)
(***************************************************************************)
validateReading(reading) ==
    IF reading.kind # "object"
      THEN "Reading must be a non-null object."
    ELSE IF NotNonEmptyString(reading.deviceId)
      THEN "deviceId must be a non-empty string."
    ELSE IF reading.timestamp.type # "string"
            \/ FalsyTime(DateParse(reading.timestamp.str))
      THEN "timestamp must be a valid ISO date string."
    ELSE IF reading.reading.type # "number" \/ reading.reading.str = "NaN"
      THEN "reading must be a number."
    ELSE IF NotNonEmptyString(reading.unit)
      THEN "unit must be a non-empty string."
    ELSE IF NotNonEmptyString(reading.location)
      THEN "location must be a non-empty string."
    ELSE IF NotNonEmptyString(reading.deviceType)
      THEN "deviceType must be a non-empty string."
    ELSE "null"

(***************************************************************************)
(* The bounds of the model and the inputs requests are drawn from.         *)
(***************************************************************************)
\* Longest array body of an ingest request.
MaxBatch == 2
\* Capacity of the Reading Store: a bulk insert that would exceed it fails.
MaxStore == 2

Calls == {"a"}
Clients == {"ws1"}

T0 == "1970-01-01T00:00:00.000Z"
T1 == "1970-01-01T01:00:00.000Z"
T2 == "1970-01-01T02:00:00.000Z"

\* Two readings of device d1 that differ in every other field, one of d2, an
\* item shaped like the README example (no unit), and an item at the epoch.
ItemA == Obj(JStr("d1"), JStr(T2), JNum(100), JStr("W"), JStr("Kitchen"), JStr("smart_plug"))
ItemB == Obj(JStr("d1"), JStr(T1), JNum(50), JStr("W"), JStr("Hall"), JStr("lamp"))
ItemC == Obj(JStr("d2"), JStr(T1), JNum(7), JStr("W"), JStr("Hall"), JStr("lamp"))
ItemNoUnit == Obj(JStr("d2"), JStr(T2), JNum(155), JUndef, JStr("Kitchen"), JStr("smart_plug"))
ItemEpoch == Obj(JStr("d2"), JStr(T0), JNum(7), JStr("W"), JStr("Hall"), JStr("lamp"))

Items == {ItemA, ItemB, ItemC, ItemNoUnit}

\* The sequences of at most n different elements of S.
SeqsUpTo(S, n) ==
    {s \in UNION {[1..k -> S] : k \in 0..n} :
        \A i, j \in 1..Len(s) : s[i] = s[j] => i = j}

\* A request body: an array of items, or one bare object.
ArrayBody(items) == [isArray |-> TRUE, array |-> items, object |-> NonObj("null")]
ObjectBody(item) == [isArray |-> FALSE, array |-> <<>>, object |-> item]

Bodies ==
    {ArrayBody(s) : s \in SeqsUpTo(Items, MaxBatch)} \cup {ObjectBody(i) : i \in Items}

\* A reading in volts, and the array bodies whose items may differ in unit.
ItemV == Obj(JStr("d2"), JStr(T2), JNum(9), JStr("V"), JStr("Hall"), JStr("meter"))
EBodies == {ArrayBody(s) : s \in SeqsUpTo({ItemA, ItemB, ItemV}, MaxBatch) \ {<<>>}}

(***************************************************************************)
(* State.                                                                  *)
(***************************************************************************)
VARIABLES
    store,       \* the telemetry_readings collection, in insertion order
    registry,    \* the device_metadata collection: a set of rows
    readyState,  \* readyState of each live-update socket
    inbox,       \* the messages sent to each socket, in order
    ingest,      \* each ingestTelemetry call: its position, locals and response
    query,       \* the query handler in flight: its position, locals and response
    vItem,       \* the item handed to validateReading on its own
    vResult,     \* and what validateReading returned for it
    chart        \* the dashboard's PowerTrendChart: its state and its fetches

vars == <<store, registry, readyState, inbox, ingest, query, vItem, vResult, chart>>

storeVars == <<store, registry>>
socketVars == <<readyState, inbox>>
pureVars == <<vItem, vResult, chart>>

(***************************************************************************)
(* TelemetryReading documents and the ingestion helpers.                   *)
(***************************************************************************)
\* The document mongoose builds from a validated item: the timestamp string
\* is cast to a Date, the other fields are stored as given.
CastReading(r) ==
    [deviceId |-> r.deviceId.str,
     timestamp |-> DateParse(r.timestamp.str).ms,
     reading |-> r.reading.num,
     unit |-> IF r.unit.type = "undefined" THEN "W" ELSE r.unit.str,
     location |-> r.location.str,
     deviceType |-> r.deviceType.str]

\* Array.isArray(req.body) ? req.body : [req.body]
BodyReadings(body) == IF body.isArray THEN body.array ELSE <<body.object>>

\* The forEach of ingestTelemetry: one {index, error} per failing item, with
\* the item's zero-based position, in the order of the batch.
invalidReadingsFirstOnlyMutant(readings) ==
    IF Len(readings) > 0 /\ validateReading(readings[1]) # "null"
      THEN <<[index |-> 0, error |-> validateReading(readings[1])]>>
      ELSE <<>>
invalidReadingsOneBasedMutant(readings) ==
    LET F[i \in 0..Len(readings)] ==
          IF i = 0 THEN <<>>
          ELSE IF validateReading(readings[i]) # "null"
                 THEN Append(F[i - 1],
                             [index |-> i, error |-> validateReading(readings[i])])
                 ELSE F[i - 1]
    IN  F[Len(readings)]
invalidReadings(readings) ==
    LET F[i \in 0..Len(readings)] ==
          IF i = 0 THEN <<>>
          ELSE IF validateReading(readings[i]) # "null"
                 THEN Append(F[i - 1],
                             [index |-> i - 1, error |-> validateReading(readings[i])])
                 ELSE F[i - 1]
    IN  F[Len(readings)]

validReadings(readings) ==
    SelectSeq(readings, LAMBDA r : validateReading(r) = "null")

\* TelemetryReading.insertMany(validReadings): the saved documents.
insertManyDropLastMutant(docs) == [i \in 1..(Len(docs) - 1) |-> CastReading(docs[i])]
insertMany(docs) == [i \in 1..Len(docs) |-> CastReading(docs[i])]

\* savedReadings.reduce((sum, r) => sum + (r.reading || 0), 0)
totalReading(saved) ==
    LET F[i \in 0..Len(saved)] == IF i = 0 THEN 0 ELSE F[i - 1] + saved[i].reading
    IN  F[Len(saved)]

\* The first element of the timestamps sorted descending.
latestTimestamp(saved) ==
    CHOOSE t \in {saved[i].timestamp : i \in 1..Len(saved)} :
        \A i \in 1..Len(saved) : saved[i].timestamp <= t

\* The aggregate record ingestTelemetry hands to broadcastNewReading.
AggregateReadingFirstSavedMutant(saved) == saved[1]
AggregateReading(saved) ==
    [deviceId |-> "all-devices",
     reading |-> totalReading(saved),
     unit |-> IF saved[1].unit # "" THEN saved[1].unit ELSE "W",
     timestamp |-> latestTimestamp(saved),
     location |-> "aggregate",
     deviceType |-> "summary"]

\* new Set(savedReadings.map(r => r.deviceId)), in the Set's iteration
\* order: each deviceId at its first occurrence.
uniqueDeviceIds(saved) ==
    LET F[i \in 0..Len(saved)] ==
          IF i = 0 THEN <<>>
          ELSE IF \E j \in 1..(i - 1) : saved[j].deviceId = saved[i].deviceId
                 THEN F[i - 1]
                 ELSE Append(F[i - 1], saved[i].deviceId)
    IN  F[Len(saved)]

\* savedReadings.find(r => r.deviceId === deviceId): the first match.
findLastMutant(saved, deviceId) ==
    saved[CHOOSE i \in 1..Len(saved) :
            /\ saved[i].deviceId = deviceId
            /\ \A j \in (i + 1)..Len(saved) : saved[j].deviceId # deviceId]
findReading(saved, deviceId) ==
    saved[CHOOSE i \in 1..Len(saved) :
            /\ saved[i].deviceId = deviceId
            /\ \A j \in 1..(i - 1) : saved[j].deviceId # deviceId]

(***************************************************************************)
(* upsertDeviceMetadata: findByIdAndUpdate with upsert.  The row with the  *)
(* reading's deviceId as _id gets the five fields set; when there is none, *)
(* one is inserted.                                                        *)
(***************************************************************************)
DeviceRowStampedAtArrivalMutant(reading) ==
    [_id |-> reading.deviceId,
     name |-> reading.deviceId,
     location |-> reading.location,
     deviceType |-> reading.deviceType,
     lastReported |-> reading.timestamp + HourMs,
     status |-> "online"]
DeviceRow(reading) ==
    [_id |-> reading.deviceId,
     name |-> reading.deviceId,
     location |-> reading.location,
     deviceType |-> reading.deviceType,
     lastReported |-> reading.timestamp,
     status |-> "online"]

upsertKeepsFieldsMutant(rows, reading) ==
    IF \E row \in rows : row._id = reading.deviceId
      THEN {IF row._id = reading.deviceId
              THEN [row EXCEPT !.lastReported = reading.timestamp]
              ELSE row : row \in rows}
      ELSE rows \cup {DeviceRow(reading)}
upsertUnsetsLastReportedMutant(rows, reading) ==
    IF \E row \in rows : row._id = reading.deviceId
      THEN {IF row._id = reading.deviceId
              THEN [DeviceRow(reading) EXCEPT !.lastReported = 0]
              ELSE row : row \in rows}
      ELSE rows \cup {DeviceRow(reading)}
upsertDeviceMetadataInsertMutant(rows, reading) == rows \cup {DeviceRow(reading)}
upsertDeviceMetadata(rows, reading) ==
    IF \E row \in rows : row._id = reading.deviceId
      THEN {IF row._id = reading.deviceId THEN DeviceRow(reading) ELSE row : row \in rows}
      ELSE rows \cup {DeviceRow(reading)}

(***************************************************************************)
(* The live-update channel.                                                *)
(***************************************************************************)
NoData ==
    [deviceId |-> "", reading |-> 0, unit |-> "", timestamp |-> 0,
     location |-> "", deviceType |-> ""]

StatusMessage ==
    [event |-> "status", message |-> "Connected to telemetry stream.", data |-> NoData]
NewReadingMessage(reading) ==
    [event |-> "new_reading", message |-> "", data |-> reading]

\* wss.clients: the sockets the server holds, from the connection event to
\* the close event.
wssClients(rs) == {cl \in DOMAIN rs : rs[cl] \in {"OPEN", "CLOSING"}}

\* broadcastNewReading: the inboxes after the forEach over wss.clients.
broadcastToEveryClientMutant(boxes, rs, reading) ==
    [cl \in DOMAIN boxes |->
        IF rs[cl] # "CLOSED" THEN Append(boxes[cl], NewReadingMessage(reading))
                             ELSE boxes[cl]]
broadcastNewReading(boxes, rs, reading) ==
    [cl \in DOMAIN boxes |->
        IF cl \in wssClients(rs) /\ rs[cl] = "OPEN"
          THEN Append(boxes[cl], NewReadingMessage(reading))
          ELSE boxes[cl]]

(***************************************************************************)
(* Responses of ingestTelemetry.                                           *)
(***************************************************************************)
Res(status, message, count, totalAttempted, failedCount, errors) ==
    [status |-> status, message |-> message, count |-> count,
     totalAttempted |-> totalAttempted, failedCount |-> failedCount,
     errors |-> errors]

NoRes == Res(0, "", 0, 0, 0, <<>>)

\* A query handler's slot: which handler, its position, its locals (page,
\* limit, the filter, the sort, the count it read) and its response.
NoFilter == [search |-> "", hasGte |-> FALSE, gte |-> 0, hasLte |-> FALSE, lte |-> 0]

\* A number formatted by toFixed: whole part, fraction digits read as a
\* number, and how many fraction digits there are ("0.10" is 0, 10, 2).
Fixed(whole, frac, digits) == [whole |-> whole, frac |-> frac, digits |-> digits]
NoFixed == Fixed(0, 0, 0)

\* The fields of the summary, trend, breakdown and health responses next to
\* data.
NoInfo ==
    [window |-> "", unit |-> "", dataKey |-> "", granularity |-> "", groupBy |-> "",
     totalUsage |-> NoFixed, highestReading |-> NoFixed, unitHighest |-> "",
     onlineDevices |-> 0, totalDevices |-> 0,
     status |-> "", service |-> "", uptime |-> 0, timestamp |-> ""]

NoQueryRes ==
    [status |-> 0, items |-> <<>>, currentPage |-> 0, totalPages |-> 0,
     total |-> 0, limit |-> 0, info |-> NoInfo]

\* What the summary handler holds between its store reads: the group of
\* the aggregation (none when nothing matched) and the online count.
NoPart == [matched |-> FALSE, sum |-> 0, max |-> 0, unit |-> "", online |-> 0]

IdleQuery ==
    [kind |-> "none", pc |-> "idle", page |-> 0, limit |-> 0, filter |-> NoFilter,
     sortField |-> "", sortOrder |-> 0, total |-> 0, res |-> NoQueryRes,
     start |-> 0, window |-> "", unitType |-> "", groupBy |-> "", part |-> NoPart]

\* PowerTrendChart before it is mounted: initialChartState, not loading, the
\* 24h window selected, no fetchTrends started.
initialChart ==
    [mounted |-> FALSE, timeWindow |-> "24h", isLoading |-> FALSE,
     chartData |-> [label |-> "Loading", timeWindow |-> "24h"],
     runs |-> <<>>]

IdleCall ==
    [pc |-> "idle", readings |-> <<>>, saved |-> <<>>, todo |-> <<>>, res |-> NoRes]

Init ==
    /\ store = <<>>
    /\ registry = {}
    /\ readyState = [cl \in Clients |-> "CONNECTING"]
    /\ inbox = [cl \in Clients |-> <<>>]
    /\ ingest = [c \in Calls |-> IdleCall]
    /\ query = IdleQuery
    /\ vItem = NonObj("null")
    /\ vResult = "pending"
    /\ chart = initialChart

(***************************************************************************)
(* ingestTelemetry.  A call runs without interruption up to each await:    *)
(* the request step is the code before insertMany, InsertMany is the bulk  *)
(* insert with the code that follows it up to the first upsert, and each   *)
(* Upsert is one findByIdAndUpdate with the code up to the next await or   *)
(* to the response.  A store operation may fail; the catch answers 500.    *)
(***************************************************************************)
\* The response is sent and the call's locals are gone.
Respond(c, res) ==
    ingest' = [ingest EXCEPT ![c] = [IdleCall EXCEPT !.pc = "done", !.res = res]]

\* readings.length === 0
IsEmptyBatchNeverMutant(readings) == FALSE
IsEmptyBatch(readings) == Len(readings) = 0

\* The validation errors of each request body; they depend on the body alone.
invalidReadingsOf ==
    [body \in Bodies \cup EBodies |-> invalidReadings(BodyReadings(body))]

IngestRequest(c, body) ==
    /\ ingest[c].pc \in {"idle", "done"}
    /\ LET readings == BodyReadings(body)
           invalid == invalidReadingsOf[body]
       IN  IF IsEmptyBatch(readings)
             THEN ingest' = [ingest EXCEPT ![c] =
                      [IdleCall EXCEPT !.pc = "done",
                          !.res = Res(400, "No telemetry data provided.", 0, 0, 0, <<>>)]]
           ELSE IF Len(invalid) > 0
             THEN ingest' = [ingest EXCEPT ![c] =
                      [IdleCall EXCEPT !.pc = "done", !.readings = readings,
                          !.res = Res(400,
                                      "One or more telemetry readings failed validation.",
                                      0, Len(readings), Len(invalid), invalid)]]
           ELSE ingest' = [ingest EXCEPT ![c] =
                      [IdleCall EXCEPT !.pc = "insertMany", !.readings = readings]]
    /\ UNCHANGED <<storeVars, socketVars, query, pureVars>>

ServerError == Res(500, "Failed to ingest data due to a server error", 0, 0, 0, <<>>)
Accepted(n) == Res(202, "Telemetry accepted and processed.", n, 0, 0, <<>>)

\* A bulk insert that replaces the stored readings of the batch's devices.
InsertManyOkReplacesDeviceMutant(c) ==
    /\ ingest[c].pc = "insertMany"
    /\ LET savedReadings == insertMany(validReadings(ingest[c].readings))
           kept == SelectSeq(store, LAMBDA doc :
                       \A i \in 1..Len(savedReadings) :
                           savedReadings[i].deviceId # doc.deviceId)
       IN  /\ Len(store) + Len(savedReadings) <= MaxStore
           /\ store' = kept \o savedReadings
           /\ inbox' = broadcastNewReading(inbox, readyState,
                                           AggregateReading(savedReadings))
           /\ ingest' = [ingest EXCEPT ![c].pc = "upsert",
                             ![c].saved = savedReadings,
                             ![c].todo = uniqueDeviceIds(savedReadings)]
    /\ UNCHANGED <<registry, readyState, query, pureVars>>

InsertManyOk(c) ==
    /\ ingest[c].pc = "insertMany"
    /\ LET savedReadings == insertMany(validReadings(ingest[c].readings))
       IN  /\ Len(store) + Len(savedReadings) <= MaxStore
           /\ store' = store \o savedReadings
           /\ IF Len(savedReadings) > 0
                THEN /\ inbox' = broadcastNewReading(inbox, readyState,
                                                     AggregateReading(savedReadings))
                     /\ ingest' = [ingest EXCEPT ![c].pc = "upsert",
                                       ![c].saved = savedReadings,
                                       ![c].todo = uniqueDeviceIds(savedReadings)]
                ELSE /\ inbox' = inbox
                     /\ Respond(c, Accepted(0))
    /\ UNCHANGED <<registry, readyState, query, pureVars>>

InsertManyFailPartialMutant(c) ==
    /\ ingest[c].pc = "insertMany"
    /\ store' = Append(store, CastReading(ingest[c].readings[1]))
    /\ Len(store') <= MaxStore
    /\ Respond(c, ServerError)
    /\ UNCHANGED <<registry, socketVars, query, pureVars>>

InsertManyFail(c) ==
    /\ ingest[c].pc = "insertMany"
    /\ Respond(c, ServerError)
    /\ UNCHANGED <<storeVars, socketVars, query, pureVars>>

UpsertOk(c) ==
    /\ ingest[c].pc = "upsert"
    /\ LET deviceId == Head(ingest[c].todo)
           latestReading == findReading(ingest[c].saved, deviceId)
       IN  registry' = upsertDeviceMetadata(registry, latestReading)
    /\ IF Len(ingest[c].todo) > 1
         THEN ingest' = [ingest EXCEPT ![c].todo = Tail(ingest[c].todo)]
         ELSE Respond(c, Accepted(Len(ingest[c].saved)))
    /\ UNCHANGED <<store, socketVars, query, pureVars>>

UpsertFail(c) ==
    /\ ingest[c].pc = "upsert"
    /\ Respond(c, ServerError)
    /\ UNCHANGED <<storeVars, socketVars, query, pureVars>>

(***************************************************************************)
(* The sockets of the live-update channel: the connection handler sends    *)
(* the status message; closing and the close event are the peer's and the  *)
(* library's doing.                                                        *)
(***************************************************************************)
ConnectionReplayMutant(cl) ==
    /\ readyState[cl] = "CONNECTING"
    /\ readyState' = [readyState EXCEPT ![cl] = "OPEN"]
    /\ inbox' = [inbox EXCEPT ![cl] =
          IF store = <<>> THEN Append(@, StatusMessage)
          ELSE @ \o <<StatusMessage, NewReadingMessage(store[Len(store)])>>]
    /\ UNCHANGED <<storeVars, ingest, query, pureVars>>
Connection(cl) ==
    /\ readyState[cl] = "CONNECTING"
    /\ readyState' = [readyState EXCEPT ![cl] = "OPEN"]
    /\ inbox' = [inbox EXCEPT ![cl] = Append(@, StatusMessage)]
    /\ UNCHANGED <<storeVars, ingest, query, pureVars>>

SocketClosing(cl) ==
    /\ readyState[cl] = "OPEN"
    /\ readyState' = [readyState EXCEPT ![cl] = "CLOSING"]
    /\ UNCHANGED <<storeVars, inbox, ingest, query, pureVars>>

SocketClosed(cl) ==
    /\ readyState[cl] = "CLOSING"
    /\ readyState' = [readyState EXCEPT ![cl] = "CLOSED"]
    /\ inbox' = [inbox EXCEPT ![cl] = <<>>]
    /\ UNCHANGED <<storeVars, ingest, query, pureVars>>

Next ==
    \/ \E c \in Calls, body \in Bodies : IngestRequest(c, body)
    \/ \E c \in Calls : InsertManyOk(c)
    \/ \E c \in Calls : InsertManyFail(c)
    \/ \E c \in Calls : UpsertOk(c)
    \/ \E c \in Calls : UpsertFail(c)
    \/ \E cl \in Clients : Connection(cl)
    \/ \E cl \in Clients : SocketClosing(cl)
    \/ \E cl \in Clients : SocketClosed(cl)

Spec == Init /\ [][Next]_vars

(***************************************************************************)
(* Query parameters.  A parameter of req.query is given (a string) or not; *)
(* page and limit are spelt as tuples of characters, which parseInt reads. *)
(***************************************************************************)
Given(text) == [given |-> TRUE, text |-> text]
MissingChars == [given |-> FALSE, text |-> <<>>]
MissingStr == [given |-> FALSE, text |-> ""]

\* extractString: the parameter when it is a string, else the default.
extractString(param, defaultValue) ==
    IF param.given THEN param.text ELSE defaultValue

Digits == {"0", "1", "2", "3", "4", "5", "6", "7", "8", "9"}
DigitValue(ch) ==
    CASE ch = "0" -> 0 [] ch = "1" -> 1 [] ch = "2" -> 2 [] ch = "3" -> 3
      [] ch = "4" -> 4 [] ch = "5" -> 5 [] ch = "6" -> 6 [] ch = "7" -> 7
      [] ch = "8" -> 8 [] ch = "9" -> 9

\* parseInt(text): leading white space is skipped, a sign is read, then the
\* longest run of digits; NaN when there is no digit.
parseInt(text) ==
    LET n == Len(text)
        \* first position that is no white space
        start == IF \E i \in 1..n : text[i] # " "
                   THEN CHOOSE i \in 1..n :
                          text[i] # " " /\ \A j \in 1..(i - 1) : text[j] = " "
                   ELSE n + 1
        signed == start <= n /\ text[start] \in {"-", "+"}
        first == IF signed THEN start + 1 ELSE start
        \* one past the last digit of the run that starts at first
        stop == IF \E i \in first..n : text[i] \notin Digits
                  THEN CHOOSE i \in first..n :
                         text[i] \notin Digits
                         /\ \A j \in first..(i - 1) : text[j] \in Digits
                  ELSE n + 1
        V[i \in (first - 1)..n] ==
            IF i < first THEN 0 ELSE 10 * V[i - 1] + DigitValue(text[i])
        magnitude == V[stop - 1]
    IN  IF stop = first
          THEN [nan |-> TRUE, val |-> 0]
          ELSE [nan |-> FALSE,
                val |-> IF signed /\ text[start] = "-" THEN 0 - magnitude ELSE magnitude]

\* isNaN(page) || page < 1 || isNaN(limit) || limit < 1
InvalidPaginationPageOnlyMutant(page, limit) == page.nan \/ page.val < 1
InvalidPagination(page, limit) ==
    page.nan \/ page.val < 1 \/ limit.nan \/ limit.val < 1

\* Math.ceil(total / limit)
totalPagesFloorMutant(total, limit) == total \div limit
totalPages(total, limit) == (total + limit - 1) \div limit

\* page > totalPages && totalPages > 0
PageDoesNotExistMutant(page, pages) == page > pages
PageDoesNotExist(page, pages) == page > pages /\ pages > 0

(***************************************************************************)
(* The filters.  A $regex with option i of a plain search word matches a   *)
(* field when the word occurs in it, letter case aside.                    *)
(***************************************************************************)
LowerChars(s) ==
    CASE s = "d1" -> <<"d", "1">>
      [] s = "d2" -> <<"d", "2">>
      [] s = "D1" -> <<"d", "1">>
      [] s = "Kitchen" -> <<"k", "i", "t", "c", "h", "e", "n">>
      [] s = "KIT" -> <<"k", "i", "t">>
      [] s = "Hall" -> <<"h", "a", "l", "l">>
      [] s = "lamp" -> <<"l", "a", "m", "p">>
      [] s = "LA" -> <<"l", "a">>
      [] s = "smart_plug" -> <<"s", "m", "a", "r", "t", "_", "p", "l", "u", "g">>
      [] s = "zzz" -> <<"z", "z", "z">>
      [] OTHER -> <<>>

RegexMatchI(word, field) ==
    LET w == LowerChars(word)
        f == LowerChars(field)
    IN  \E k \in 0..(Len(f) - Len(w)) : \A i \in 1..Len(w) : f[k + i] = w[i]

\* The timestamp condition of a filter: $gte and $lte, each when given.
InRangeExclusiveMutant(t, filter) ==
    /\ filter.hasGte => t > filter.gte
    /\ filter.hasLte => t < filter.lte
InRange(t, filter) ==
    /\ filter.hasGte => t >= filter.gte
    /\ filter.hasLte => t <= filter.lte

\* getTelemetryReadings' filterQuery on a reading.
ReadingMatches(doc, filter) ==
    /\ filter.search # "" =>
          \/ RegexMatchI(filter.search, doc.deviceId)
          \/ RegexMatchI(filter.search, doc.deviceType)
          \/ RegexMatchI(filter.search, doc.location)
    /\ InRange(doc.timestamp, filter)

\* getDeviceList's filterQuery on a row.
DeviceMatches(row, filter) ==
    filter.search # "" =>
        \/ RegexMatchI(filter.search, row.name)
        \/ RegexMatchI(filter.search, row.deviceType)

\* TelemetryReading.countDocuments(filterQuery)
countReadings(st, filter) ==
    Cardinality({i \in 1..Len(st) : ReadingMatches(st[i], filter)})

\* DeviceMetadata.countDocuments(filterQuery)
countDevices(rows, filter) ==
    Cardinality({r \in rows : DeviceMatches(r, filter)})

(***************************************************************************)
(* find().sort().skip().limit(): the store leaves the order of documents   *)
(* with equal sort keys open, so a read may return any arrangement of the  *)
(* matching documents that is sorted.                                      *)
(***************************************************************************)
\* The sequences that hold each element of S once.
Arrangements(S) ==
    {p \in [1..Cardinality(S) -> S] : \A i, j \in 1..Cardinality(S) : p[i] = p[j] => i = j}

\* .skip(skip).limit(limit) of a sequence.
Page(seq, skip, limit) ==
    SubSeq(seq, skip + 1, IF skip + limit < Len(seq) THEN skip + limit ELSE Len(seq))

\* TelemetryReading.find(filterQuery).sort({timestamp: -1}).skip().limit()
findReadings(st, filter, skip, limit) ==
    LET matching == {i \in 1..Len(st) : ReadingMatches(st[i], filter)}
        sorted == {p \in Arrangements(matching) :
                     \A i, j \in 1..Len(p) :
                         i < j => st[p[i]].timestamp >= st[p[j]].timestamp}
    IN  {Page([i \in 1..Len(p) |-> st[p[i]]], skip, limit) : p \in sorted}

\* The strings of the model in the order the store compares them.
StringOrder ==
    <<"", "Hall", "Kitchen", "W", "d1", "d2", "lamp", "online", "smart_plug">>
StringRank(str) == CHOOSE i \in 1..Len(StringOrder) : StringOrder[i] = str

\* sortFieldMap[sortBy] || "lastReported"
sortMongoField(sortBy) ==
    CASE sortBy = "deviceId" -> "name"
      [] sortBy = "location" -> "location"
      [] sortBy = "deviceType" -> "deviceType"
      [] sortBy = "status" -> "status"
      [] OTHER -> "lastReported"

SortKey(row, field) ==
    CASE field = "name" -> StringRank(row.name)
      [] field = "location" -> StringRank(row.location)
      [] field = "deviceType" -> StringRank(row.deviceType)
      [] field = "status" -> StringRank(row.status)
      [] OTHER -> row.lastReported

\* Date.toISOString() on the instants of the model.
toISOString(ms) ==
    CASE ms = 0 -> "1970-01-01T00:00:00.000Z"
      [] ms = HourMs -> "1970-01-01T01:00:00.000Z"
      [] ms = 2 * HourMs -> "1970-01-01T02:00:00.000Z"
      [] ms = 3 * HourMs -> "1970-01-01T03:00:00.000Z"

\* formattedDevices' element for a row.
FormatDevice(device) ==
    [deviceId |-> device.name, location |-> device.location,
     deviceType |-> device.deviceType, status |-> device.status,
     lastReported |-> toISOString(device.lastReported)]

\* DeviceMetadata.find(filterQuery).sort({[field]: order}).skip().limit()
findDevices(rows, filter, field, order, skip, limit) ==
    LET matching == {r \in rows : DeviceMatches(r, filter)}
        sorted == {p \in Arrangements(matching) :
                     \A i, j \in 1..Len(p) :
                         i < j => order * SortKey(p[i], field) <= order * SortKey(p[j], field)}
    IN  {Page(p, skip, limit) : p \in sorted}

(***************************************************************************)
(* getTelemetryReadings and getDeviceList.  The request step is the code   *)
(* before countDocuments; Counted is countDocuments with the code up to    *)
(* find (or to the 404); Found is find with the 200 response.  One query   *)
(* handler is in flight at a time; ingestion interleaves with it.          *)
(***************************************************************************)
QueryRes(status, items, currentPage, pages, total, limit) ==
    [status |-> status, items |-> items, currentPage |-> currentPage,
     totalPages |-> pages, total |-> total, limit |-> limit, info |-> NoInfo]

\* The response is sent and the handler's locals are gone.
QueryRespond(kind, res) ==
    query' = [IdleQuery EXCEPT !.kind = kind, !.pc = "done", !.res = res]

DefaultPage == <<"1">>
DefaultLimit == <<"2", "0">>

getTelemetryReadings(p) ==
    /\ query.pc \in {"idle", "done"}
    /\ LET page == parseInt(extractString(p.page, DefaultPage))
           limit == parseInt(extractString(p.limit, DefaultLimit))
           search == extractString(p.search, "")
           startTimestampStr == extractString(p.startTimestamp, "")
           endTimestampStr == extractString(p.endTimestamp, "")
           startDate == DateParse(startTimestampStr)
           endDate == DateParse(endTimestampStr)
       IN  IF InvalidPagination(page, limit)
             THEN QueryRespond("readings", QueryRes(400, <<>>, 0, 0, 0, 0))
           ELSE IF startTimestampStr # "" /\ ~startDate.valid
             THEN QueryRespond("readings", QueryRes(400, <<>>, 0, 0, 0, 0))
           ELSE IF endTimestampStr # "" /\ ~endDate.valid
             THEN QueryRespond("readings", QueryRes(400, <<>>, 0, 0, 0, 0))
           ELSE query' = [IdleQuery EXCEPT
                    !.kind = "readings", !.pc = "count",
                    !.page = page.val, !.limit = limit.val,
                    !.filter = [search |-> search,
                                hasGte |-> startTimestampStr # "", gte |-> startDate.ms,
                                hasLte |-> endTimestampStr # "", lte |-> endDate.ms]]
    /\ UNCHANGED <<storeVars, socketVars, ingest, pureVars>>

getDeviceList(p) ==
    /\ query.pc \in {"idle", "done"}
    /\ LET page == parseInt(extractString(p.page, DefaultPage))
           limit == parseInt(extractString(p.limit, DefaultLimit))
           search == extractString(p.search, "")
           sortBy == extractString(p.sort, "lastReported")
           order == extractString(p.order, "desc")
       IN  IF InvalidPagination(page, limit)
             THEN QueryRespond("devices", QueryRes(400, <<>>, 0, 0, 0, 0))
           ELSE query' = [IdleQuery EXCEPT
                    !.kind = "devices", !.pc = "count",
                    !.page = page.val, !.limit = limit.val,
                    !.filter = [NoFilter EXCEPT !.search = search],
                    !.sortField = sortMongoField(sortBy),
                    !.sortOrder = IF order = "asc" THEN 1 ELSE 0 - 1]
    /\ UNCHANGED <<storeVars, socketVars, ingest, pureVars>>

\* countDocuments answered: totalPages, skip and the 404 check.
Counted ==
    /\ query.pc = "count"
    /\ LET total == IF query.kind = "readings"
                      THEN countReadings(store, query.filter)
                      ELSE countDevices(registry, query.filter)
           pages == totalPages(total, query.limit)
       IN  IF PageDoesNotExist(query.page, pages)
             THEN QueryRespond(query.kind, QueryRes(404, <<>>, 0, 0, 0, 0))
             ELSE query' = [query EXCEPT !.pc = "find", !.total = total]
    /\ UNCHANGED <<storeVars, socketVars, ingest, pureVars>>

\* find answered: the 200 response.
Found ==
    /\ query.pc = "find"
    /\ LET skip == (query.page - 1) * query.limit
           pages == totalPages(query.total, query.limit)
       IN  \E items \in IF query.kind = "readings"
                          THEN findReadings(store, query.filter, skip, query.limit)
                          ELSE {[i \in 1..Len(p) |-> FormatDevice(p[i])] :
                                  p \in findDevices(registry, query.filter, query.sortField,
                                                    query.sortOrder, skip, query.limit)} :
              QueryRespond(query.kind, QueryRes(200, items, query.page, pages, query.total, query.limit))
    /\ UNCHANGED <<storeVars, socketVars, ingest, pureVars>>

\* A store read that fails: the catch answers 500.
QueryStoreError ==
    /\ query.pc \in {"count", "find", "aggregate", "onlineCount", "totalCount"}
    /\ QueryRespond(query.kind, QueryRes(500, <<>>, 0, 0, 0, 0))
    /\ UNCHANGED <<storeVars, socketVars, ingest, pureVars>>

(***************************************************************************)
(* The aggregation queries: summary, trends and breakdown.  Date.now() is  *)
(* an input of the step that reads it.  Readings are whole numbers; sums   *)
(* divided by 1000 are kept as the sum with the divisor.                   *)
(***************************************************************************)
MinuteMs == 60000
DayMs == 24 * HourMs

\* $sum of "$reading" over the positions M of the store.
SumReadings(st, M) ==
    LET S[k \in 0..Len(st)] ==
            IF k = 0 THEN 0
            ELSE S[k - 1] + (IF k \in M THEN st[k].reading ELSE 0)
    IN  S[Len(st)]

\* $max of "$reading" over the positions M (not empty) of the store.
MaxReading(st, M) ==
    CHOOSE m \in {st[i].reading : i \in M} : \A i \in M : st[i].reading <= m

\* (num / den).toFixed(digits) for num >= 0: rounded to the nearest, the
\* model's inputs having no value half way between two results.
toFixed(num, den, digits) ==
    LET scale == IF digits = 1 THEN 10 ELSE 100
        k == (2 * num * scale + den) \div (2 * den)
    IN  Fixed(k \div scale, k % scale, digits)

\* `k${baseUnit}h`
totalUsageUnit(baseUnit) ==
    CASE baseUnit = "W" -> "kWh"
      [] baseUnit = "V" -> "kVh"
      [] OTHER -> "k?h"

\* A response of an aggregation query.
AggRes(status, info, items) ==
    [QueryRes(status, items, 0, 0, 0, 0) EXCEPT !.info = info]

\* getTelemetrySummary up to the await of the aggregation.
getTelemetrySummary(now) ==
    /\ query.pc \in {"idle", "done"}
    /\ query' = [IdleQuery EXCEPT !.kind = "summary", !.pc = "aggregate",
                                  !.start = now - 24 * 60 * MinuteMs]
    /\ UNCHANGED <<storeVars, socketVars, ingest, pureVars>>

\* The aggregation answered: $match timestamp >= twentyFourHoursAgo, one
\* $group with $sum, $max and the $first unit (the pipeline has no $sort, so
\* the first document is any of the matched ones).
SummaryAggregated ==
    /\ query.kind = "summary" /\ query.pc = "aggregate"
    /\ LET M == {i \in 1..Len(store) : store[i].timestamp >= query.start}
       IN  IF M = {}
             THEN query' = [query EXCEPT !.pc = "onlineCount", !.part = NoPart]
             ELSE \E i \in M :
                    query' = [query EXCEPT
                        !.pc = "onlineCount",
                        !.part = [matched |-> TRUE, sum |-> SumReadings(store, M),
                                  max |-> MaxReading(store, M),
                                  unit |-> store[i].unit, online |-> 0]]
    /\ UNCHANGED <<storeVars, socketVars, ingest, pureVars>>

\* countDocuments({status: "online", lastReported >= now - 5 min}) answered.
SummaryOnlineCountedFromReadingsMutant(now) ==
    /\ query.kind = "summary" /\ query.pc = "onlineCount"
    /\ now >= query.start + DayMs
    /\ query' = [query EXCEPT
          !.pc = "totalCount",
          !.part.online = Cardinality({i \in 1..Len(store) :
                              store[i].timestamp >= now - 5 * MinuteMs})]
    /\ UNCHANGED <<storeVars, socketVars, ingest, pureVars>>
SummaryOnlineCountedMarksOfflineMutant(now) ==
    /\ query.kind = "summary" /\ query.pc = "onlineCount"
    /\ now >= query.start + DayMs
    /\ query' = [query EXCEPT
          !.pc = "totalCount",
          !.part.online = Cardinality({r \in registry :
                              r.status = "online" /\ r.lastReported >= now - 5 * MinuteMs})]
    /\ registry' = {IF r.lastReported >= now - 5 * MinuteMs
                      THEN r ELSE [r EXCEPT !.status = "offline"] : r \in registry}
    /\ UNCHANGED <<store, socketVars, ingest, pureVars>>
SummaryOnlineCounted(now) ==
    /\ query.kind = "summary" /\ query.pc = "onlineCount"
    /\ now >= query.start + DayMs
    /\ query' = [query EXCEPT
          !.pc = "totalCount",
          !.part.online = Cardinality({r \in registry :
                              r.status = "online" /\ r.lastReported >= now - 5 * MinuteMs})]
    /\ UNCHANGED <<storeVars, socketVars, ingest, pureVars>>

\* countDocuments({}) answered: the 200 response.
SummaryTotalCounted ==
    /\ query.kind = "summary" /\ query.pc = "totalCount"
    /\ LET part == query.part
           baseUnit == IF part.matched /\ part.unit # "" THEN part.unit ELSE "W"
       IN  QueryRespond("summary", AggRes(200,
               [NoInfo EXCEPT
                   !.totalUsage = IF part.matched THEN toFixed(part.sum, 1000, 2)
                                                  ELSE Fixed(0, 0, 2),
                   !.highestReading = IF part.matched THEN toFixed(part.max, 1, 1)
                                                      ELSE Fixed(0, 0, 1),
                   !.unit = totalUsageUnit(baseUnit),
                   !.unitHighest = baseUnit,
                   !.onlineDevices = part.online,
                   !.totalDevices = Cardinality(registry)],
               <<>>))
    /\ UNCHANGED <<storeVars, socketVars, ingest, pureVars>>

\* $dateToString of a timestamp: "%Y-%m-%dT%H" names the hour and
\* "%Y-%m-%d" the calendar day (UTC) the instant lies in; the label is kept
\* as the number of that hour or day since the epoch, which orders as the
\* zero-padded label does.
dateToString(granularity, ms) ==
    IF granularity = "day" THEN ms \div DayMs ELSE ms \div HourMs

\* $sort {_id: 1}: the elements of a set of numbers in ascending order.
RECURSIVE SortAscending(_)
SortAscending(S) ==
    IF S = {} THEN <<>>
    ELSE LET least == CHOOSE x \in S : \A y \in S : x <= y
         IN  <<least>> \o SortAscending(S \ {least})

\* getEnergyTrends up to the await of the aggregation.
getEnergyTrends(p, now) ==
    /\ query.pc \in {"idle", "done"}
    /\ LET window == extractString(p.window, "24h")
           unitType == extractString(p.unitType, "W")
       IN  query' = [IdleQuery EXCEPT
               !.kind = "trends", !.pc = "aggregate",
               !.window = window, !.unitType = unitType,
               !.start = IF window = "7d" THEN now - 7 * 24 * 60 * MinuteMs
                                          ELSE now - 24 * 60 * MinuteMs]
    /\ UNCHANGED <<storeVars, socketVars, ingest, pureVars>>

\* The trend aggregation answered: the 200 response.
TrendsAggregated ==
    /\ query.kind = "trends" /\ query.pc = "aggregate"
    /\ LET granularity == IF query.window = "7d" THEN "day" ELSE "hour"
           M == {i \in 1..Len(store) :
                   store[i].timestamp >= query.start /\ store[i].unit = query.unitType}
           labels == SortAscending({dateToString(granularity, store[i].timestamp) : i \in M})
           isW == query.unitType = "W"
           trendData == [k \in 1..Len(labels) |->
               [timeLabel |-> labels[k],
                sum |-> SumReadings(store,
                          {i \in M : dateToString(granularity, store[i].timestamp) = labels[k]}),
                divisor |-> IF isW THEN 1000 ELSE 1]]
       IN  QueryRespond("trends", AggRes(200,
               [NoInfo EXCEPT
                   !.window = query.window,
                   !.unit = IF isW THEN "kWh" ELSE query.unitType,
                   !.dataKey = IF isW THEN "usageKWh" ELSE "totalReading",
                   !.granularity = granularity],
               trendData))
    /\ UNCHANGED <<storeVars, socketVars, ingest, pureVars>>

UnknownOrMissing == "UNKNOWN_OR_MISSING_FIELD"

\* The value a reading is grouped by; every stored reading has a location
\* and a deviceType, so $ifNull finds its field.
GroupKey(doc, groupBy) ==
    IF groupBy = "deviceType" THEN doc.deviceType ELSE doc.location

\* getUsageBreakdown up to the await of the aggregation.
getUsageBreakdown(by, now) ==
    /\ query.pc \in {"idle", "done"}
    /\ query' = [IdleQuery EXCEPT
          !.kind = "breakdown", !.pc = "aggregate",
          !.groupBy = IF by.given /\ by.text = "category" THEN "deviceType" ELSE "location",
          !.start = now - 7 * 24 * 60 * MinuteMs]
    /\ UNCHANGED <<storeVars, socketVars, ingest, pureVars>>

\* The breakdown aggregation answered: $match, $group, $project, and the
\* last $match that drops the group named UNKNOWN_OR_MISSING_FIELD; the
\* pipeline has no $sort, the groups come in any order.
BreakdownAggregated ==
    /\ query.kind = "breakdown" /\ query.pc = "aggregate"
    /\ LET M == {i \in 1..Len(store) :
                   store[i].timestamp >= query.start /\ store[i].unit = "W"}
           groups == {[name |-> n,
                       sum |-> SumReadings(store,
                                 {i \in M : GroupKey(store[i], query.groupBy) = n}),
                       divisor |-> 1000] :
                         n \in {GroupKey(store[i], query.groupBy) : i \in M}}
           kept == {g \in groups : g.name # UnknownOrMissing}
       IN  \E breakdownData \in Arrangements(kept) :
              QueryRespond("breakdown", AggRes(200,
                  [NoInfo EXCEPT !.groupBy = query.groupBy, !.unit = "kWh"],
                  breakdownData))
    /\ UNCHANGED <<storeVars, socketVars, ingest, pureVars>>

(***************************************************************************)
(* Ingestion of valid batches, whose store operations succeed, interleaved *)
(* with the two paginated queries, whose store reads may fail.             *)
(***************************************************************************)
ValidItems == {i \in Items : validateReading(i) = "null"}

QBodies ==
    {ArrayBody(b) : b \in SeqsUpTo(ValidItems, MaxBatch) \ {<<>>}}
    \cup {ObjectBody(i) : i \in ValidItems}

QPages == {MissingChars, Given(<<"2">>), Given(<<"0">>)}
QLimits == {MissingChars, Given(<<"2">>)}
QSearches == {MissingStr, Given("KIT")}
QStarts == {MissingStr, Given(T2)}
QEnds == {MissingStr, Given("not-a-date")}
QSorts == {MissingStr}
QOrders == {MissingStr, Given("asc")}

ReadingsParams ==
    [page : QPages, limit : QLimits, search : QSearches,
     startTimestamp : QStarts, endTimestamp : QEnds]

DevicesParams ==
    [page : QPages, limit : QLimits, search : QSearches, sort : QSorts, order : QOrders]

NextQ ==
    \/ \E c \in Calls, body \in QBodies : IngestRequest(c, body)
    \/ \E c \in Calls : InsertManyOk(c)
    \/ \E c \in Calls : UpsertOk(c)
    \/ \E p \in ReadingsParams : getTelemetryReadings(p)
    \/ \E p \in DevicesParams : getDeviceList(p)
    \/ Counted
    \/ Found
    \/ QueryStoreError

SpecQ == Init /\ [][NextQ]_vars

(***************************************************************************)
(* The two paginated queries with page and limit spelt in every way:       *)
(* missing, a number, zero, negative, no number, a number with a tail.     *)
(***************************************************************************)
\* Readings come in one by one, each as a single object.
PBodies == {ObjectBody(i) : i \in ValidItems}

PPages ==
    {MissingChars, Given(<<"2">>), Given(<<"0">>), Given(<<"x">>),
     Given(<<"2", "x">>), Given(<<"-", "1">>)}
PLimits == {MissingChars, Given(<<"1">>), Given(<<"0">>), Given(<<"x">>)}

PReadingsParams ==
    [page : PPages, limit : PLimits, search : {MissingStr},
     startTimestamp : {MissingStr}, endTimestamp : QEnds]

PDevicesParams ==
    [page : PPages, limit : PLimits, search : {MissingStr}, sort : QSorts,
     order : {MissingStr}]

NextP ==
    \/ \E c \in Calls, body \in PBodies : IngestRequest(c, body)
    \/ \E c \in Calls : InsertManyOk(c)
    \/ \E c \in Calls : UpsertOk(c)
    \/ \E p \in PReadingsParams : getTelemetryReadings(p)
    \/ \E p \in PDevicesParams : getDeviceList(p)
    \/ Counted
    \/ Found
    \/ QueryStoreError

SpecP == Init /\ [][NextP]_vars

(***************************************************************************)
(* The readings query with its filters: a search word, a start and an end  *)
(* of the timestamp range, each given or not.                              *)
(***************************************************************************)
FPages == {MissingChars, Given(<<"2">>)}
FLimits == {MissingChars, Given(<<"1">>)}
FSearches == {MissingStr, Given("KIT")}
FStarts == {MissingStr, Given(T1)}
FEnds == {MissingStr, Given(T1)}

FReadingsParams ==
    [page : FPages, limit : FLimits, search : FSearches,
     startTimestamp : FStarts, endTimestamp : FEnds]

NextF ==
    \/ \E c \in Calls, body \in PBodies : IngestRequest(c, body)
    \/ \E c \in Calls : InsertManyOk(c)
    \/ \E c \in Calls : UpsertOk(c)
    \/ \E p \in FReadingsParams : getTelemetryReadings(p)
    \/ Counted
    \/ Found
    \/ QueryStoreError

SpecF == Init /\ [][NextF]_vars

(***************************************************************************)
(* getHealthStatus: a synchronous handler; process.uptime() and the clock  *)
(* are its inputs.                                                         *)
(***************************************************************************)
getHealthStatusStoreCheckMutant(uptime, now) ==
    /\ query.pc \in {"idle", "done"}
    /\ QueryRespond("health", AggRes(IF store = <<>> THEN 503 ELSE 200,
           [NoInfo EXCEPT !.status = IF store = <<>> THEN "empty" ELSE "ok",
                          !.service = "smart-home-backend",
                          !.uptime = uptime, !.timestamp = toISOString(now)],
           <<>>))
    /\ UNCHANGED <<storeVars, socketVars, ingest, pureVars>>
getHealthStatus(uptime, now) ==
    /\ query.pc \in {"idle", "done"}
    /\ QueryRespond("health", AggRes(200,
           [NoInfo EXCEPT !.status = "ok", !.service = "smart-home-backend",
                          !.uptime = uptime, !.timestamp = toISOString(now)],
           <<>>))
    /\ UNCHANGED <<storeVars, socketVars, ingest, pureVars>>

\* Ingestion, one subscriber and the health handler.
HUptimes == {1, 2}
HNows == {HourMs, 2 * HourMs}

NextH ==
    \/ \E c \in Calls, body \in QBodies : IngestRequest(c, body)
    \/ \E c \in Calls : InsertManyOk(c)
    \/ \E c \in Calls : InsertManyFail(c)
    \/ \E c \in Calls : UpsertOk(c)
    \/ \E c \in Calls : UpsertFail(c)
    \/ \E cl \in Clients : Connection(cl)
    \/ \E cl \in Clients : SocketClosing(cl)
    \/ \E cl \in Clients : SocketClosed(cl)
    \/ \E uptime \in HUptimes, now \in HNows : getHealthStatus(uptime, now)

SpecH == Init /\ [][NextH]_vars

(***************************************************************************)
(* The aggregation queries on their own, over stores that ingestion can    *)
(* have built: a series of readings of one device at a fixed distance,     *)
(* followed by up to two readings of other kinds, each ingested as a batch *)
(* of one.                                                                 *)
(***************************************************************************)
MaxSeries == 25

SeriesDoc(ts) ==
    [deviceId |-> "d1", timestamp |-> ts, reading |-> 10, unit |-> "W",
     location |-> "Kitchen", deviceType |-> "smart_plug"]

Series(start, step, n) == [k \in 1..n |-> SeriesDoc(start + (k - 1) * step)]

\* A reading in volts, one whose location is the text the breakdown uses for
\* a missing field, one stamped after every request time, and an old one.
DocVolt ==
    [deviceId |-> "d2", timestamp |-> DayMs, reading |-> 7, unit |-> "V",
     location |-> "Hall", deviceType |-> "lamp"]
DocUnknownLocation ==
    [deviceId |-> "d2", timestamp |-> DayMs, reading |-> 50, unit |-> "W",
     location |-> UnknownOrMissing, deviceType |-> "lamp"]
DocFuture ==
    [deviceId |-> "d2", timestamp |-> 9 * DayMs, reading |-> 100, unit |-> "W",
     location |-> "Hall", deviceType |-> "lamp"]
DocOld ==
    [deviceId |-> "d2", timestamp |-> MinuteMs, reading |-> 100, unit |-> "W",
     location |-> "Hall", deviceType |-> "lamp"]

AStarts == {90 * MinuteMs, 12 * HourMs}
ASteps == {59 * MinuteMs, 23 * HourMs}
ACounts == {0, 1, 8, MaxSeries}
AExtras == SeqsUpTo({DocVolt, DocUnknownLocation, DocFuture, DocOld}, 2)

\* The request times: 25 h 30 min and 7 d 12 h after the epoch, that is 24 h
\* and 7 d after the two starts of the series.
ANows == {DayMs + 90 * MinuteMs, 7 * DayMs + 12 * HourMs}

ATrendParams ==
    [window : {MissingStr, Given("7d")}, unitType : {MissingStr, Given("V")}]

ABys == {MissingStr, Given("category")}

\* The registry after the readings of a store were ingested one by one.
RECURSIVE RegistryOf(_)
RegistryOf(st) ==
    IF st = <<>> THEN {}
    ELSE upsertDeviceMetadata(RegistryOf(SubSeq(st, 1, Len(st) - 1)), st[Len(st)])

InitA ==
    /\ \E start \in AStarts, step \in ASteps, n \in ACounts, extras \in AExtras :
          store = Series(start, step, n) \o extras
    /\ registry = RegistryOf(store)
    /\ readyState = [cl \in Clients |-> "CONNECTING"]
    /\ inbox = [cl \in Clients |-> <<>>]
    /\ ingest = [c \in Calls |-> IdleCall]
    /\ query = IdleQuery
    /\ vItem = NonObj("null")
    /\ vResult = "pending"
    /\ chart = initialChart

NextA ==
    \/ \E now \in ANows : getTelemetrySummary(now)
    \/ SummaryAggregated
    \/ \E now \in ANows : SummaryOnlineCounted(now)
    \/ SummaryTotalCounted
    \/ \E p \in ATrendParams, now \in ANows : getEnergyTrends(p, now)
    \/ TrendsAggregated
    \/ \E by \in ABys, now \in ANows : getUsageBreakdown(by, now)
    \/ BreakdownAggregated
    \/ QueryStoreError

SpecA == InitA /\ [][NextA]_vars

(***************************************************************************)
(* Ingestion with two subscribers that connect and close at any time.      *)
(***************************************************************************)
WClients == {"ws1", "ws2"}

InitW ==
    /\ store = <<>>
    /\ registry = {}
    /\ readyState = [cl \in WClients |-> "CONNECTING"]
    /\ inbox = [cl \in WClients |-> <<>>]
    /\ ingest = [c \in Calls |-> IdleCall]
    /\ query = IdleQuery
    /\ vItem = NonObj("null")
    /\ vResult = "pending"
    /\ chart = initialChart

NextW ==
    \/ \E c \in Calls, body \in QBodies : IngestRequest(c, body)
    \/ \E c \in Calls : InsertManyOk(c)
    \/ \E c \in Calls : InsertManyFail(c)
    \/ \E c \in Calls : UpsertOk(c)
    \/ \E c \in Calls : UpsertFail(c)
    \/ \E cl \in WClients : Connection(cl)
    \/ \E cl \in WClients : SocketClosing(cl)
    \/ \E cl \in WClients : SocketClosed(cl)

SpecW == InitW /\ [][NextW]_vars

(***************************************************************************)
(* validateReading on its own: every item built from these field values    *)
(* is handed to it once.                                                   *)
(***************************************************************************)
VStrings == {JStr("d1"), JStr(""), JStr(" "), JUndef, JNum(5)}
VTimestamps == {JStr(T0), JStr(T1), JStr("not-a-date"), JUndef, JNum(3600000)}
VReadings == {JNum(0), JNum(100), JNaN, JStr("100"), JUndef}
VLabels == {JStr("W"), JStr(" "), JUndef}

VItems ==
    {Obj(d, t, r, u, l, k) : d \in VStrings, t \in VTimestamps, r \in VReadings,
                             u \in VLabels, l \in VLabels, k \in VLabels}
    \cup {NonObj("null"), NonObj("primitive")}

InitV ==
    /\ store = <<>>
    /\ registry = {}
    /\ readyState = [cl \in Clients |-> "CONNECTING"]
    /\ inbox = [cl \in Clients |-> <<>>]
    /\ ingest = [c \in Calls |-> IdleCall]
    /\ query = IdleQuery
    /\ vItem \in VItems
    /\ vResult = "pending"
    /\ chart = initialChart

Validate ==
    /\ vResult = "pending"
    /\ vResult' = validateReading(vItem)
    /\ UNCHANGED <<storeVars, socketVars, ingest, query, vItem, chart>>

NextV == Validate

SpecV == InitV /\ [][NextV]_vars

(***************************************************************************)
(* The claims.                                                             *)
(***************************************************************************)

\* What the specification asks of a valid item: deviceId, location,
\* deviceType and unit are non-empty (after trimming) strings, reading is a
\* number other than NaN, timestamp is a string that parses to a date.
IsNonEmptyString(v) == v.type = "string" /\ ~TrimIsEmpty(v.str)
IsValidItem(r) ==
    /\ r.kind = "object"
    /\ IsNonEmptyString(r.deviceId)
    /\ IsNonEmptyString(r.location)
    /\ IsNonEmptyString(r.deviceType)
    /\ IsNonEmptyString(r.unit)
    /\ r.reading.type = "number" /\ r.reading.str # "NaN"
    /\ r.timestamp.type = "string" /\ DateParse(r.timestamp.str).valid

\* C3: an item passes validateReading exactly when its four labels are
\* non-empty strings, its reading is a non-NaN number and its timestamp is a
\* string that parses to a valid date, the epoch instant 0 included.
C3_ValidatesExactlyValidItems ==
    vResult # "pending" => (vResult = "null" <=> IsValidItem(vItem))

\* C3, away from the epoch: the same equivalence for every item whose
\* timestamp is not a string that parses to the instant 0.
C3_ValidatesAwayFromEpoch ==
    (vResult # "pending"
     /\ ~(vItem.timestamp.type = "string"
          /\ DateParse(vItem.timestamp.str).valid
          /\ DateParse(vItem.timestamp.str).ms = 0))
    => (vResult = "null" <=> IsValidItem(vItem))

\* The step of call c that takes a request in: the synchronous part of
\* ingestTelemetry, up to the 400 response or to the await of insertMany.
RequestStep(c) ==
    /\ ingest[c].pc \in {"idle", "done"}
    /\ ingest'[c] # ingest[c]

\* A step of call c that sends its response with the given status.
ResponseStep(c, status) ==
    /\ ingest[c].pc # "done" \/ RequestStep(c)
    /\ ingest'[c].pc = "done"
    /\ ingest'[c].res.status = status

SomeSocketOpen == \E cl \in Clients : readyState[cl] = "OPEN"

\* C1: a call whose batch holds an item failing validation answers 400 and
\* changes neither the Reading Store, nor the Device Registry, nor any
\* subscriber's inbox; stated as: a request step that does anything else
\* carries a batch whose items all pass validation.
C1_InvalidBatchChangesNothing ==
    [][\A c \in Calls :
         (/\ RequestStep(c)
          /\ ~(/\ ingest'[c].pc = "done"
                /\ ingest'[c].res.status = 400
                /\ UNCHANGED <<store, registry, inbox>>))
         => \A i \in 1..Len(ingest'[c].readings) :
               validateReading(ingest'[c].readings[i]) = "null"]_vars

\* C1's case: a batch with a valid and an invalid item was rejected while the
\* store held readings, the registry rows and a subscriber was open.
C1_Witness ==
    \E c \in Calls :
        /\ ingest[c].pc = "done"
        /\ ingest[c].res.status = 400
        /\ \E i, j \in 1..Len(ingest[c].readings) :
              /\ validateReading(ingest[c].readings[i]) = "null"
              /\ validateReading(ingest[c].readings[j]) # "null"
        /\ Len(store) > 0
        /\ registry # {}
        /\ SomeSocketOpen

\* The positions (from 1) of the items of a batch that fail validateReading.
InvalidPositions(readings) ==
    {i \in 1..Len(readings) : validateReading(readings[i]) # "null"}

C6_EmptyBatchRejected ==
    [][\A c \in Calls :
         (RequestStep(c) /\ ingest'[c].readings = <<>>)
         => /\ ingest'[c].pc = "done"
            /\ ingest'[c].res.status = 400
            /\ UNCHANGED <<store, registry, inbox>>]_vars

\* C6's case: the empty batch was rejected while the store held readings, the
\* registry rows and a subscriber was open.
C6_Witness ==
    \E c \in Calls :
        /\ ingest[c].pc = "done"
        /\ ingest[c].res = Res(400, "No telemetry data provided.", 0, 0, 0, <<>>)
        /\ Len(store) > 0
        /\ registry # {}
        /\ SomeSocketOpen

\* The documents seq lie in the store st, next to each other and in order.
IsSegment(seq, st) ==
    \E k \in 0..(Len(st) - Len(seq)) :
        \A i \in 1..Len(seq) : st[k + i] = seq[i]

C7_OneOnlineRowPerDevice ==
    /\ [](\A r1, r2 \in registry : r1._id = r2._id => r1 = r2)
    /\ [](\A r \in registry : r.status = "online")
    /\ [][\A c \in Calls :
            (ingest[c].pc = "upsert" /\ registry' # registry)
            => /\ {r._id : r \in registry'} = {r._id : r \in registry} \cup {Head(ingest[c].todo)}
               /\ Cardinality({r \in registry' : r._id = Head(ingest[c].todo)}) = 1]_vars

\* C7's case: two readings of one device are stored, from different fields,
\* and the registry holds one row.
C7_Witness ==
    /\ Len(store) = 2
    /\ store[1].deviceId = store[2].deviceId
    /\ store[1].location # store[2].location
    /\ Cardinality(registry) = 1
    /\ \A c \in Calls : ingest[c].pc = "done" /\ ingest[c].res.status = 202

\* The first document of a batch that carries the deviceId.
FirstOf(saved, deviceId) ==
    saved[CHOOSE i \in 1..Len(saved) :
            /\ saved[i].deviceId = deviceId
            /\ \A j \in 1..Len(saved) : saved[j].deviceId = deviceId => i <= j]

\* The last document of a batch that carries the deviceId.
LastOf(saved, deviceId) ==
    saved[CHOOSE i \in 1..Len(saved) :
            /\ saved[i].deviceId = deviceId
            /\ \A j \in 1..Len(saved) : saved[j].deviceId = deviceId => j <= i]

DevicesOf(saved) == {saved[i].deviceId : i \in 1..Len(saved)}

\* The documents the last n of the store.
LastStored(n) == SubSeq(store, Len(store) - n + 1, Len(store))

\* C8: when a call answers 202, each device of its batch has a registry row
\* whose location, deviceType and lastReported are those of the first item of
\* the batch with that deviceId.
C8_RowFromFirstItemOfBatch ==
    [][\A c \in Calls :
         ResponseStep(c, 202)
         => \A d \in DevicesOf(ingest[c].saved) :
               \E r \in registry' :
                   /\ r._id = d
                   /\ r.location = FirstOf(ingest[c].saved, d).location
                   /\ r.deviceType = FirstOf(ingest[c].saved, d).deviceType
                   /\ r.lastReported = FirstOf(ingest[c].saved, d).timestamp]_vars

\* C8's case: a batch of two readings of one device, the later timestamp in
\* the second, was accepted: the row reports the first one's.
C8_Witness ==
    \E c \in Calls :
        /\ ingest[c].pc = "done"
        /\ ingest[c].res.status = 202
        /\ ingest[c].res.count = 2
        /\ store[1].deviceId = store[2].deviceId
        /\ store[1].timestamp < store[2].timestamp
        /\ \E r \in registry : r._id = store[1].deviceId /\ r.lastReported = store[1].timestamp

\* C9, as claimed: after a call answered 202, each device of its batch has
\* the timestamp of the batch's last reading of that device as lastReported.
C9_LastReportedIsLastReading ==
    \A c \in Calls :
        (ingest[c].pc = "done" /\ ingest[c].res.status = 202)
        => LET batch == LastStored(ingest[c].res.count)
           IN  \A d \in DevicesOf(batch) :
                   \A r \in registry :
                       r._id = d => r.lastReported = LastOf(batch, d).timestamp

\* How often a document occurs in a sequence.
Occurrences(doc, seq) == Cardinality({i \in 1..Len(seq) : seq[i] = doc})

\* C2: a 202 response counts the items of the payload, exactly these items
\* were appended to the Reading Store, and a readings query without filter
\* whose page spans the store returns the stored readings, each as often as
\* it was ingested, and nothing else.
C2_AcceptedItemsStoredAndReturned ==
    /\ [][\A c \in Calls :
            (ingest[c].pc = "insertMany" /\ ingest'[c].pc \in {"upsert", "done"}
             /\ ingest'[c].res.status # 500)
            => store' = store \o [i \in 1..Len(ingest[c].readings) |->
                                      CastReading(ingest[c].readings[i])]]_vars
    /\ [][\A c \in Calls :
            ResponseStep(c, 202)
            => /\ ingest'[c].res.count = Len(ingest[c].readings)
               /\ ingest'[c].res.count > 0
               /\ IsSegment([i \in 1..Len(ingest[c].readings) |->
                                 CastReading(ingest[c].readings[i])], store')]_vars
    /\ [][(query.pc = "find" /\ query.kind = "readings" /\ query'.res.status = 200
           /\ query.filter = NoFilter /\ query.page = 1 /\ query.limit >= Len(store))
          => \A doc \in {store[i] : i \in 1..Len(store)}
                    \cup {query'.res.items[i] : i \in 1..Len(query'.res.items)} :
                Occurrences(doc, query'.res.items) = Occurrences(doc, store)]_vars

\* C2's case: a batch of two readings was accepted with count 2 and a
\* readings query then returned both.
C2_Witness ==
    /\ \E c \in Calls :
          ingest[c].pc = "done" /\ ingest[c].res.status = 202 /\ ingest[c].res.count = 2
    /\ query.kind = "readings"
    /\ query.res.status = 200
    /\ Len(query.res.items) = 2
    /\ Len(store) = 2

\* ceil(n / limit) for limit >= 1.
CeilOf(n, limit) ==
    CHOOSE k \in 0..n : k * limit >= n /\ (k = 0 \/ (k - 1) * limit < n)

\* The documents a query in flight matches.
MatchingCount ==
    IF query.kind = "readings"
      THEN Cardinality({i \in 1..Len(store) : ReadingMatches(store[i], query.filter)})
      ELSE Cardinality({r \in registry : DeviceMatches(r, query.filter)})

\* C10: for both paginated queries, once page and limit are accepted and as
\* long as the store reads succeed, the count read answers 404 exactly when
\* page > totalPages and totalPages > 0, every other request is answered 200,
\* and the totalPages reported is ceil(matching count / limit).
C10_PaginationAnd404 ==
    /\ [][(query.pc = "count" /\ query' # query /\ query'.res.status # 500)
          => LET pages == CeilOf(MatchingCount, query.limit)
             IN  /\ query'.res.status = 404 <=> (query.page > pages /\ pages > 0)
                 /\ query'.res.status # 404
                      => /\ query'.pc = "find"
                         /\ query'.total = MatchingCount
                         /\ query'.page = query.page
                         /\ query'.limit = query.limit]_vars
    /\ [][(query.pc = "find" /\ query' # query /\ query'.res.status # 500)
          => /\ query'.res.status = 200
             /\ query'.res.totalPages = CeilOf(query.total, query.limit)
             /\ query'.res.total = query.total
             /\ query'.res.currentPage = query.page]_vars

\* C10's case: page 2 was asked for when nothing matched, and the answer is
\* 200 with totalPages 0.
C10_Witness ==
    /\ query.pc = "done"
    /\ query.res.status = 200
    /\ query.res.currentPage = 2
    /\ query.res.totalPages = 0
    /\ Len(store) > 0

\* The number a page or limit parameter stands for, as parseInt reads its
\* text (or the default's, when the parameter is missing).
ReadAsNumber(param, defaultValue) == parseInt(extractString(param, defaultValue))

\* page or limit is no number or is less than 1.
IsBadPagination(p) ==
    LET page == ReadAsNumber(p.page, DefaultPage)
        limit == ReadAsNumber(p.limit, DefaultLimit)
    IN  \/ page.nan
        \/ ~page.nan /\ page.val < 1
        \/ limit.nan
        \/ ~limit.nan /\ limit.val < 1

\* The requests whose page or limit is no number or is less than 1.
BadReadingsParams == {p \in PReadingsParams : IsBadPagination(p)}
BadDevicesParams == {p \in PDevicesParams : IsBadPagination(p)}

\* A step that can be a handler's request step and leaves the handler's
\* slot in another way than answered 400.
NotAnswered400(kind) ==
    /\ query.pc \in {"idle", "done"}
    /\ query'.kind = kind
    /\ ~(query'.pc = "done" /\ query'.res.status = 400)

ContainsIgnoringCase(field, word) ==
    LET f == LowerChars(field)
        w == LowerChars(word)
    IN  \E k \in 0..(Len(f) - Len(w)) : SubSeq(f, k + 1, k + Len(w)) = w

\* A reading matches the parameters of a readings query.
MatchesParams(doc, p) ==
    /\ (p.search.given /\ p.search.text # "")
          => \/ ContainsIgnoringCase(doc.deviceId, p.search.text)
             \/ ContainsIgnoringCase(doc.deviceType, p.search.text)
             \/ ContainsIgnoringCase(doc.location, p.search.text)
    /\ (p.startTimestamp.given /\ p.startTimestamp.text # "")
          => DateParse(p.startTimestamp.text).ms <= doc.timestamp
    /\ (p.endTimestamp.given /\ p.endTimestamp.text # "")
          => doc.timestamp <= DateParse(p.endTimestamp.text).ms

\* The lists of the store's positions in seq order: every position of M
\* once, timestamps descending.
NewestFirst(M) ==
    {q \in [1..Cardinality(M) -> M] :
        /\ \A i, j \in 1..Cardinality(M) : i # j => q[i] # q[j]
        /\ \A i \in 1..(Cardinality(M) - 1) :
              store[q[i]].timestamp >= store[q[i + 1]].timestamp}

\* C12: the filter a readings query reads the store with matches a reading
\* exactly when the reading matches the request's parameters (search on
\* deviceId, deviceType or location; both range bounds inclusive, each only
\* when given), and the 200 response holds the elements at positions
\* (page-1)*limit .. page*limit-1 of a list of the matching readings of the
\* store sorted by timestamp descending.  The filter is built from the
\* parameters alone; it is compared for the requests that find the handler's
\* slot unused, in every state of the store.
C12_PageOfMatchingNewestFirst ==
    /\ [][(query.pc = "idle" /\ query'.pc = "count")
          => \A p \in FReadingsParams :
                getTelemetryReadings(p)
                => \A doc \in ValidItems :
                      ReadingMatches(CastReading(doc), query'.filter)
                         <=> MatchesParams(CastReading(doc), p)]_vars
    /\ [][(query.pc = "find" /\ query.kind = "readings" /\ query'.res.status = 200)
          => LET M == {i \in 1..Len(store) : ReadingMatches(store[i], query.filter)}
                 first == (query.page - 1) * query.limit
                 last == IF query.page * query.limit < Cardinality(M)
                           THEN query.page * query.limit ELSE Cardinality(M)
             IN  \E q \in NewestFirst(M) :
                    query'.res.items = [k \in 1..(IF last > first THEN last - first ELSE 0)
                                           |-> store[q[first + k]]]]_vars

\* C12's case: with a reading at T2 and one at T1 stored, a query for the
\* range from T1 to T1 and page 1 returned the one at T1.
C12_Witness ==
    /\ query.pc = "done"
    /\ query.kind = "readings"
    /\ query.res.status = 200
    /\ Len(store) = 2
    /\ store[1].timestamp # store[2].timestamp
    /\ query.res.total = 1
    /\ Len(query.res.items) = 1
    /\ query.res.items[1].timestamp = DateParse(T1).ms

\* The positions of the store's readings stamped from..to, both included.
StampedWithin(from, to) ==
    {i \in 1..Len(store) : from <= store[i].timestamp /\ store[i].timestamp <= to}

\* The positions of the store's readings stamped at from or later.
StampedSince(from) == {i \in 1..Len(store) : from <= store[i].timestamp}

\* The sum of the readings at the positions M of the store.
RECURSIVE TotalOf(_)
TotalOf(M) ==
    IF M = {} THEN 0
    ELSE LET i == CHOOSE j \in M : TRUE
         IN  store[i].reading + TotalOf(M \ {i})

\* total / 1000 with two decimals, and a whole number with one decimal.
KiloTwoDecimals(total) ==
    LET h == CHOOSE k \in 0..(total \div 10 + 1) : 10 * k - total \in (0 - 4)..5
    IN  Fixed(h \div 100, h % 100, 2)
OneDecimal(n) == Fixed(n, 0, 1)

\* What a summary reports for the readings at the positions M.
SummaryOver(M, part) ==
    IF M = {}
      THEN ~part.matched
      ELSE /\ part.matched
           /\ part.sum = TotalOf(M)
           /\ \E i \in M : store[i].reading = part.max
           /\ \A i \in M : store[i].reading <= part.max

\* The summary's 200 response formats what its aggregation read: the sum
\* divided by 1000 with two decimals and the maximum with one, "0.00" and
\* "0.0" when nothing matched.
SummaryResponseFormatsPart ==
    (query.kind = "summary" /\ query.pc = "totalCount" /\ query'.res.status # 500
     /\ query' # query)
    => /\ query'.res.status = 200
       /\ query'.res.info.totalUsage =
             (IF query.part.matched THEN KiloTwoDecimals(query.part.sum)
                                    ELSE Fixed(0, 0, 2))
       /\ query'.res.info.highestReading =
             (IF query.part.matched THEN OneDecimal(query.part.max)
                                    ELSE Fixed(0, 0, 1))

\* The step at which the summary's aggregation is answered.
SummaryAggregationStep ==
    query.kind = "summary" /\ query.pc = "aggregate" /\ query'.pc = "onlineCount"

\* C13, as claimed: the summary reports the sum and the maximum of the
\* readings stamped within [now - 24 h, now], and "0.00" and "0.0" with
\* status 200 when no reading lies in that window.
C13_SummaryOverTrailingDay ==
    /\ [][SummaryAggregationStep
          => SummaryOver(StampedWithin(query.start, query.start + DayMs), query'.part)]_vars
    /\ [][SummaryResponseFormatsPart]_vars

\* C13, what the code computes: the sum and the maximum of the readings
\* stamped at now - 24 h or later, those stamped after now included.
C13_SummaryOverReadingsSince ==
    /\ [][SummaryAggregationStep
          => SummaryOver(StampedSince(query.start), query'.part)]_vars
    /\ [][SummaryResponseFormatsPart]_vars

\* C14, as claimed: a trend response holds at most 24 buckets for the
\* window 24h (hour buckets) and at most 7 for the window 7d (day buckets).
C14_AtMost24HourAnd7DayBuckets ==
    (query.pc = "done" /\ query.kind = "trends" /\ query.res.status = 200)
    => /\ query.res.info.granularity = "hour" => Len(query.res.items) <= 24
       /\ query.res.info.granularity = "day" => Len(query.res.items) <= 7

\* C14, what the code guarantees: when no matching reading is stamped after
\* the request time, the hours (days) touched by a window of 24 h (7 d) that
\* need not start on the hour (at midnight) are at most 25 (8).
C14_AtMostOneBucketMore ==
    [][(query.kind = "trends" /\ query.pc = "aggregate" /\ query'.res.status = 200)
       => LET span == IF query.window = "7d" THEN 7 * DayMs ELSE DayMs
          IN  (\A i \in StampedSince(query.start) :
                   store[i].timestamp <= query.start + span)
              => Len(query'.res.items) <= (IF query.window = "7d" THEN 8 ELSE 25)]_vars

\* C15, as claimed: the values of a breakdown's groups, times 1000, add up to
\* the sum of the readings with unit W stamped within the trailing 7 days,
\* each of these readings is counted in exactly one emitted group, and no
\* group is named for a missing field.
C15_BreakdownCoversEveryReading ==
    [][(query.kind = "breakdown" /\ query.pc = "aggregate" /\ query'.res.status = 200)
       => LET data == query'.res.items
              M == {i \in StampedWithin(query.start, query.start + 7 * DayMs) :
                      store[i].unit = "W"}
              Sum[k \in 0..Len(data)] == IF k = 0 THEN 0 ELSE Sum[k - 1] + data[k].sum
          IN  /\ \A k \in 1..Len(data) : data[k].divisor = 1000
              /\ Sum[Len(data)] = TotalOf(M)
              /\ \A i \in M :
                    Cardinality({k \in 1..Len(data) :
                        data[k].name = (IF query.groupBy = "deviceType"
                                          THEN store[i].deviceType
                                          ELSE store[i].location)}) = 1
              /\ \A k \in 1..Len(data) : data[k].name # UnknownOrMissing]_vars

\* C15, the same with the window the code uses (stamped at now - 7 d or
\* later): it still fails, for a reading whose location or deviceType is the
\* text UNKNOWN_OR_MISSING_FIELD.
C15_BreakdownCoversEveryReadingSince ==
    [][(query.kind = "breakdown" /\ query.pc = "aggregate" /\ query'.res.status = 200)
       => LET data == query'.res.items
              M == {i \in StampedSince(query.start) : store[i].unit = "W"}
              Sum[k \in 0..Len(data)] == IF k = 0 THEN 0 ELSE Sum[k - 1] + data[k].sum
          IN  Sum[Len(data)] = TotalOf(M)]_vars

\* The new_reading events among the messages sent to a subscriber.
EventsOf(box) == SelectSeq(box, LAMBDA msg : msg.event = "new_reading")

\* The step of call c at which its bulk insert succeeds and its batch is
\* broadcast.
InsertedStep(c) == ingest[c].pc = "insertMany" /\ ingest'[c].pc = "upsert"

\* C16: at the broadcast of an inserted batch each subscriber that is open
\* is sent one new_reading event, each subscriber that is connecting, closing
\* or closed is sent nothing, and no later step of the call sends anything.
C16_OneEventPerOpenSubscriber ==
    /\ [][\A c \in Calls :
            InsertedStep(c)
            => \A cl \in DOMAIN inbox :
                  IF readyState[cl] = "OPEN"
                    THEN /\ Len(inbox'[cl]) = Len(inbox[cl]) + 1
                         /\ SubSeq(inbox'[cl], 1, Len(inbox[cl])) = inbox[cl]
                         /\ inbox'[cl][Len(inbox'[cl])].event = "new_reading"
                    ELSE inbox'[cl] = inbox[cl]]_vars
    /\ [][\A c \in Calls :
            (ingest'[c] # ingest[c] /\ ~InsertedStep(c)) => inbox' = inbox]_vars

\* C16's case: a batch was just broadcast while one subscriber was open and
\* the other closing: the first holds the event, the second does not.
C16_Witness ==
    /\ \E c \in Calls : ingest[c].pc = "upsert"
    /\ DOMAIN inbox = WClients
    /\ readyState["ws1"] = "OPEN" /\ readyState["ws2"] = "CLOSING"
    /\ Len(EventsOf(inbox["ws1"])) = 1
    /\ inbox["ws2"] = <<StatusMessage>>
    /\ Len(store) = Len(ingest["a"].saved)

\* C17: the step that opens a connection sends the status message and no
\* new_reading event, and a subscriber's events grow only at the broadcast
\* of a batch inserted while the subscriber is open, by that batch's event.
C17_NoReplayOnConnect ==
    /\ [](\A cl \in DOMAIN inbox : readyState[cl] = "CONNECTING" => inbox[cl] = <<>>)
    /\ [][\A cl \in DOMAIN inbox :
            (readyState[cl] # "OPEN" /\ readyState'[cl] = "OPEN")
            => /\ inbox'[cl] = Append(inbox[cl], StatusMessage)
               /\ EventsOf(inbox'[cl]) = <<>>]_vars
    /\ [][\A cl \in DOMAIN inbox :
            (EventsOf(inbox'[cl]) # EventsOf(inbox[cl]) /\ readyState'[cl] # "CLOSED")
            => /\ readyState[cl] = "OPEN"
               /\ \E c \in Calls :
                     /\ InsertedStep(c)
                     /\ store' = store \o ingest'[c].saved
                     /\ EventsOf(inbox'[cl]) =
                           Append(EventsOf(inbox[cl]),
                                  NewReadingMessage(AggregateReading(ingest'[c].saved)))]_vars

\* C17's case: two batches of one reading were inserted, the subscriber
\* connected between the two broadcasts and holds the second event only.
C17_Witness ==
    /\ Len(store) = 2
    /\ store[1].reading # store[2].reading
    /\ readyState["ws1"] = "OPEN"
    /\ Len(inbox["ws1"]) = 2
    /\ inbox["ws1"][1] = StatusMessage
    /\ inbox["ws1"][2].event = "new_reading"
    /\ inbox["ws1"][2].data.reading = store[2].reading

\* C18, as claimed: a request with one reading shaped like the README's
\* example (no unit field) passes validation, is answered 202 "Telemetry
\* accepted and processed." with count 1, and is stored with the unit W.
C18_ReadmeExampleAccepted ==
    /\ [][\A c \in Calls :
            (RequestStep(c) /\ ingest'[c].readings = <<ItemNoUnit>>)
            => /\ ingest'[c].pc = "insertMany"
               /\ insertMany(validReadings(ingest'[c].readings))
                     = <<[CastReading(ItemNoUnit) EXCEPT !.unit = "W"]>>]_vars
    /\ [][\A c \in Calls :
            (ingest[c].readings = <<ItemNoUnit>> /\ ingest[c].pc = "upsert"
             /\ ingest'[c].pc = "done" /\ ingest'[c].res.status # 500)
            => ingest'[c].res = Accepted(1)]_vars

\* C19: the health handler can answer in every state, its answer is 200 with
\* status "ok" and service "smart-home-backend" whatever the stores and the
\* subscribers are, and it leaves the stores and the subscribers as they are.
C19_HealthAlwaysOk ==
    /\ [](ENABLED (\E uptime \in HUptimes, now \in HNows : getHealthStatus(uptime, now)))
    /\ [][\A uptime \in HUptimes, now \in HNows :
            getHealthStatus(uptime, now)
            => /\ query'.pc = "done"
               /\ query'.res.status = 200
               /\ query'.res.info.status = "ok"
               /\ query'.res.info.service = "smart-home-backend"
               /\ UNCHANGED <<store, registry, readyState, inbox>>]_vars
    /\ [](query.kind = "health"
          => /\ query.res.status = 200
             /\ query.res.info.status = "ok"
             /\ query.res.info.service = "smart-home-backend")

\* C19's case: the health handler answered while an ingest call was between
\* its insert and its upserts and a subscriber was open.
C19_Witness ==
    /\ query.kind = "health"
    /\ query.pc = "done"
    /\ query.res.status = 200
    /\ \E c \in Calls : ingest[c].pc = "upsert"
    /\ Len(store) > 0
    /\ SomeSocketOpen

\* The registry row of each device of a batch is the one the batch's upsert
\* writes.
RowsOfBatchUpserted(saved, rows) ==
    \A d \in DevicesOf(saved) : DeviceRow(FirstOf(saved, d)) \in rows

\* C20, as claimed: a call inserts its batch, then upserts the registry row
\* of every device of the batch, and only then notifies the subscribers: at
\* the step at which a subscriber is sent a batch's event the batch is in
\* the store, every device of the batch has its row upserted, and no upsert
\* of the call is still to come.
C20_BroadcastAfterUpserts ==
    [][\A cl \in DOMAIN inbox :
         (EventsOf(inbox'[cl]) # EventsOf(inbox[cl]) /\ readyState'[cl] # "CLOSED")
         => \E c \in Calls :
               /\ ingest'[c] # ingest[c]
               /\ LET saved == IF ingest'[c].pc = "done" THEN ingest[c].saved
                                                         ELSE ingest'[c].saved
                  IN  /\ saved # <<>>
                      /\ IsSegment(saved, store')
                      /\ RowsOfBatchUpserted(saved, registry')
                      /\ ingest'[c].todo = <<>>]_vars


(***************************************************************************)
(* Two ingestTelemetry calls in flight at once: the handlers interleave at  *)
(* their awaits, each store operation is one step.                          *)
(***************************************************************************)
CCalls == {"a", "b"}

InitC ==
    /\ store = <<>>
    /\ registry = {}
    /\ readyState = [cl \in Clients |-> "CONNECTING"]
    /\ inbox = [cl \in Clients |-> <<>>]
    /\ ingest = [c \in CCalls |-> IdleCall]
    /\ query = IdleQuery
    /\ vItem = NonObj("null")
    /\ vResult = "pending"
    /\ chart = initialChart

NextC ==
    \/ \E c \in CCalls, body \in QBodies : IngestRequest(c, body)
    \/ \E c \in CCalls : InsertManyOk(c)
    \/ \E c \in CCalls : InsertManyFail(c)
    \/ \E c \in CCalls : UpsertOk(c)
    \/ \E c \in CCalls : UpsertFail(c)

SpecC == InitC /\ [][NextC]_vars

\* The step is an upsert of call c.
UpsertStep(c) == ingest[c].pc = "upsert" /\ registry' # registry

\* C21: with two ingest calls interleaved, the registry holds one row per
\* device, each row is the row of one single stored reading, every upsert
\* leaves the device's row equal to the row of the reading it applies and the
\* other rows as they were, and no other step changes the registry.
C21_ConcurrentUpsertsNeverMix ==
    /\ [](\A r1, r2 \in registry : r1._id = r2._id => r1 = r2)
    /\ [](\A row \in registry : \E i \in 1..Len(store) : row = DeviceRow(store[i]))
    /\ [][\A c \in CCalls :
            (ingest[c].pc = "upsert" /\ ingest'[c] # ingest[c] /\ ingest'[c].res.status # 500)
            => LET applied == findReading(ingest[c].saved, Head(ingest[c].todo))
               IN  /\ DeviceRow(applied) \in registry'
                   /\ \A row \in registry' : row._id # applied.deviceId => row \in registry
                   /\ \A row \in registry : row._id # applied.deviceId => row \in registry']_vars
    /\ [][registry' # registry => \E c \in CCalls : UpsertStep(c)]_vars

\* C21's case: call a stored a reading of d1, then call b stored another
\* reading of d1 and upserted it, while a is still before its own upsert of
\* d1: the row is b's reading.
C21_Witness ==
    /\ Len(store) = 2
    /\ store[1].deviceId = store[2].deviceId
    /\ store[1] # store[2]
    /\ ingest["a"].pc = "upsert"
    /\ ingest["a"].saved = <<store[1]>>
    /\ ingest["b"].pc = "done"
    /\ ingest["b"].res.status = 202
    /\ registry = {DeviceRow(store[2])}


\* The batch of call c, stored as the last documents of the store, is in
\* ingestion order: each of its readings is stamped no earlier than every
\* reading of its device stored before the call, and no earlier than the
\* readings of its device before it in the batch.
OrderedBatch(c) ==
    LET saved == ingest[c].saved
        before == Len(store) - Len(saved)
    IN  /\ SubSeq(store, before + 1, Len(store)) = saved
        /\ \A i \in 1..Len(saved) :
              /\ \A j \in 1..before :
                    store[j].deviceId = saved[i].deviceId
                    => store[j].timestamp <= saved[i].timestamp
              /\ \A j \in 1..(i - 1) :
                    saved[j].deviceId = saved[i].deviceId
                    => saved[j].timestamp <= saved[i].timestamp

\* Every row is still there and reports no earlier time than before.
LastReportedNotDecreased ==
    \A row \in registry :
        /\ \E next \in registry' : next._id = row._id
        /\ \A next \in registry' :
              next._id = row._id => row.lastReported <= next.lastReported

\* C22: with ingest calls running one after another, a step of a call whose
\* batch is in ingestion order, and any step that is no upsert, leaves every
\* device's lastReported at least what it was.
C22_LastReportedNeverDecreases ==
    [][(\A c \in Calls : ingest[c].pc = "upsert" => OrderedBatch(c))
       => LastReportedNotDecreased]_vars

\* C22's case: a second call brought a later reading of a device and its
\* upsert moved the row's lastReported forward.
C22_Witness ==
    /\ Len(store) = 2
    /\ store[1].deviceId = store[2].deviceId
    /\ store[1].timestamp < store[2].timestamp
    /\ \E c \in Calls :
          /\ ingest[c].pc = "done"
          /\ ingest[c].res.status = 202
          /\ ingest[c].res.count = 1
    /\ \E row \in registry : row._id = store[2].deviceId /\ row.lastReported = store[2].timestamp


(***************************************************************************)
(* The five query handlers next to ingestion: one ingest call and one      *)
(* query in flight, interleaved at their awaits, with a subscriber.        *)
(***************************************************************************)
RPages == {MissingChars, Given(<<"2">>), Given(<<"0">>)}
RReadingsParams ==
    [page : RPages, limit : {Given(<<"1">>)}, search : {MissingStr},
     startTimestamp : {MissingStr}, endTimestamp : QEnds]
RDevicesParams ==
    [page : RPages, limit : {Given(<<"1">>)}, search : {MissingStr},
     sort : QSorts, order : {MissingStr}]
RTrendParams == [window : {MissingStr, Given("7d")}, unitType : {MissingStr}]

\* The request times: one minute after the latest reading's stamp, and the
\* same a day later.
RNows == {2 * HourMs + MinuteMs, DayMs + 2 * HourMs + MinuteMs}

NextR ==
    \/ \E c \in Calls, body \in PBodies : IngestRequest(c, body)
    \/ \E c \in Calls : InsertManyOk(c)
    \/ \E c \in Calls : UpsertOk(c)
    \/ \E cl \in Clients : Connection(cl)
    \/ \E p \in RReadingsParams : getTelemetryReadings(p)
    \/ \E p \in RDevicesParams : getDeviceList(p)
    \/ Counted
    \/ Found
    \/ \E now \in RNows : getTelemetrySummary(now)
    \/ SummaryAggregated
    \/ \E now \in RNows : SummaryOnlineCounted(now)
    \/ SummaryTotalCounted
    \/ \E p \in RTrendParams, now \in RNows : getEnergyTrends(p, now)
    \/ TrendsAggregated
    \/ \E by \in ABys, now \in RNows : getUsageBreakdown(by, now)
    \/ BreakdownAggregated
    \/ QueryStoreError

SpecR == Init /\ [][NextR]_vars


\* C23: every step of a query handler (readings, device list, summary,
\* trends, breakdown), that is every step that moves the query slot and every
\* step that belongs neither to the ingest call nor to a socket, leaves the
\* Reading Store, the Device Registry and every subscriber's inbox unchanged.
C23_QueriesChangeNothing ==
    [][(query' # query \/ (ingest' = ingest /\ readyState' = readyState))
       => UNCHANGED <<store, registry, inbox>>]_vars

\* C23's case: a summary was answered 500 while readings were stored, the
\* registry held a row reported long before and the subscriber held an event.
C23_Witness ==
    /\ query.kind = "summary"
    /\ query.pc = "done"
    /\ query.res.status = 500
    /\ Len(store) > 0
    /\ \E row \in registry : row.lastReported < HourMs + MinuteMs
    /\ \E cl \in Clients : readyState[cl] = "OPEN" /\ Len(EventsOf(inbox[cl])) > 0


\* C24: across ingest and query calls interleaved in any way, no step
\* removes or changes a stored reading: the store after a step starts with
\* the store before it, field by field.
C24_StoreIsAppendOnly ==
    [][/\ Len(store) <= Len(store')
       /\ \A i \in 1..Len(store) :
             /\ store'[i].deviceId = store[i].deviceId
             /\ store'[i].timestamp = store[i].timestamp
             /\ store'[i].reading = store[i].reading
             /\ store'[i].unit = store[i].unit
             /\ store'[i].location = store[i].location
             /\ store'[i].deviceType = store[i].deviceType]_vars

\* C24's case: a readings query counted one reading, a second reading of the
\* same device was stored before the query answered, and both are there.
C24_Witness ==
    /\ query.kind = "readings"
    /\ query.pc = "done"
    /\ query.res.status = 200
    /\ query.res.total = 1
    /\ Len(store) = 2
    /\ store[1].deviceId = store[2].deviceId
    /\ store[1] # store[2]


(***************************************************************************)
(* Ingestion of batches whose readings differ in unit, with a subscriber.  *)
(***************************************************************************)
NextE ==
    \/ \E c \in Calls, body \in EBodies : IngestRequest(c, body)
    \/ \E c \in Calls : InsertManyOk(c)
    \/ \E c \in Calls : InsertManyFail(c)
    \/ \E c \in Calls : UpsertOk(c)
    \/ \E c \in Calls : UpsertFail(c)
    \/ \E cl \in Clients : Connection(cl)
    \/ \E cl \in Clients : SocketClosing(cl)
    \/ \E cl \in Clients : SocketClosed(cl)

SpecE == Init /\ [][NextE]_vars

\* The sum of the readings of a sequence of documents.
RECURSIVE SumOfReadings(_)
SumOfReadings(docs) ==
    IF docs = <<>> THEN 0 ELSE Head(docs).reading + SumOfReadings(Tail(docs))

\* The documents a step added to the store.
NewlyStored == SubSeq(store', Len(store) + 1, Len(store'))

\* The data of the last message of an inbox.
LastData(box) == box[Len(box)].data

\* C25: the event sent for an inserted batch carries deviceId "all-devices",
\* the sum of the readings the call inserted, the latest of their timestamps
\* and the unit of the first of them.
C25_EventIsAggregateOfBatch ==
    [][\A c \in Calls :
         InsertedStep(c)
         => \A cl \in DOMAIN inbox :
               readyState[cl] = "OPEN"
               => /\ LastData(inbox'[cl]).deviceId = "all-devices"
                  /\ LastData(inbox'[cl]).reading = SumOfReadings(NewlyStored)
                  /\ \E i \in 1..Len(NewlyStored) :
                        LastData(inbox'[cl]).timestamp = NewlyStored[i].timestamp
                  /\ \A i \in 1..Len(NewlyStored) :
                        NewlyStored[i].timestamp <= LastData(inbox'[cl]).timestamp
                  /\ LastData(inbox'[cl]).unit = NewlyStored[1].unit]_vars

\* C25's case: a batch of a reading in volts followed by an earlier reading in
\* watts of another device was inserted while the subscriber was open.
C25_Witness ==
    /\ \E c \in Calls : ingest[c].pc = "upsert" /\ Len(ingest[c].saved) = 2
    /\ Len(store) = 2
    /\ store[1].unit = "V" /\ store[2].unit = "W"
    /\ store[1].timestamp > store[2].timestamp
    /\ \E cl \in Clients :
          /\ readyState[cl] = "OPEN"
          /\ Len(EventsOf(inbox[cl])) = 1
          /\ LastData(inbox[cl]).unit = "V"
          /\ LastData(inbox[cl]).reading = store[1].reading + store[2].reading


\* C26: every 200 response of the summary reports no more online devices
\* than devices, whatever the ingest call did between the handler's reads.
C26_OnlineAtMostTotal ==
    (query.kind = "summary" /\ query.pc = "done" /\ query.res.status = 200)
    => query.res.info.onlineDevices <= query.res.info.totalDevices

\* C26's case: the summary counted the only device as online and answered;
\* by then an ingest call had moved the row to a time outside every request's
\* five minutes, so the row was rewritten after the online count.
C26_Witness ==
    /\ query.kind = "summary"
    /\ query.pc = "done"
    /\ query.res.status = 200
    /\ query.res.info.onlineDevices = 1
    /\ query.res.info.totalDevices = 1
    /\ Cardinality(registry) = 1
    /\ \A row \in registry : \A now \in RNows : row.lastReported < now - 5 * MinuteMs


\* C27: every registry row is named after its key and carries the location,
\* deviceType and timestamp of one stored reading of the device it is keyed
\* by.
C27_RowsComeFromStoredReadings ==
    \A row \in registry :
        /\ row.name = row._id
        /\ \E i \in 1..Len(store) :
              /\ store[i].deviceId = row._id
              /\ store[i].location = row.location
              /\ store[i].deviceType = row.deviceType
              /\ store[i].timestamp = row.lastReported

\* C27's case: two different readings of a device are stored by two calls
\* and the device's row is the second one's.
C27_Witness ==
    /\ Len(store) = 2
    /\ store[1].deviceId = store[2].deviceId
    /\ store[1].location # store[2].location
    /\ \E c \in Calls : ingest[c].pc = "done" /\ ingest[c].res.count = 1
    /\ \E row \in registry :
          /\ row._id = store[2].deviceId
          /\ row.location = store[2].location
          /\ row.lastReported = store[2].timestamp


\* Subscriber cl holds the event of the batch call c inserted, as its last
\* event.
HoldsEventOf(cl, c) ==
    /\ ingest[c].saved # <<>>
    /\ EventsOf(inbox[cl]) # <<>>
    /\ LastData(EventsOf(inbox[cl])).deviceId = "all-devices"
    /\ LastData(EventsOf(inbox[cl])).reading = SumOfReadings(ingest[c].saved)

\* C28, as claimed: when a call answers 500, no subscriber holds an event of
\* the batch of that call.
C28_NoEventForFailedCall ==
    [][\A c \in Calls :
         ResponseStep(c, 500)
         => \A cl \in DOMAIN inbox : ~HoldsEventOf(cl, c)]_vars


\* min(limit, max(0, total - (page - 1) * limit))
ExpectedOnPage(total, page, limit) ==
    LET rest == total - (page - 1) * limit
    IN  IF rest < 0 THEN 0 ELSE IF rest < limit THEN rest ELSE limit

\* C29, as claimed: every 200 response of the readings query returns as many
\* readings as the total, page and limit it reports leave for that page,
\* whatever the ingest call did between the handler's count and its find.
C29_PageSizeMatchesReportedTotal ==
    (query.kind = "readings" /\ query.pc = "done" /\ query.res.status = 200)
    => Len(query.res.items)
         = ExpectedOnPage(query.res.total, query.res.currentPage, query.res.limit)


(***************************************************************************)
(* The dashboard's PowerTrendChart.  Its effect runs fetchTrends when the   *)
(* component mounts and whenever the selected window changes; nothing       *)
(* cancels a fetchTrends that is still running.  Each run is at its fetch   *)
(* or at the delay before its next attempt; a step runs up to the next      *)
(* await.                                                                   *)
(***************************************************************************)
\* Window selections made after the component mounted.
MaxSelections == 2

maxRetries == 3

WindowOptions == {"24h", "7d"}

\* fetchTrends up to its first fetch: setIsLoading(true), attempts++.
StartedRun(window) ==
    [timeWindow |-> window, pc |-> "fetch", attempts |-> 1, success |-> FALSE]

\* The effect at mount.
MountChart ==
    /\ ~chart.mounted
    /\ chart' = [chart EXCEPT !.mounted = TRUE, !.isLoading = TRUE,
                              !.runs = <<StartedRun(chart.timeWindow)>>]
    /\ UNCHANGED <<storeVars, socketVars, ingest, query, vItem, vResult>>

\* handleWindowChange(key) and the effect that follows a changed timeWindow.
handleWindowChange(key) ==
    /\ chart.mounted
    /\ key # chart.timeWindow
    /\ Len(chart.runs) < 1 + MaxSelections
    /\ chart' = [chart EXCEPT !.timeWindow = key, !.isLoading = TRUE,
                              !.runs = Append(@, StartedRun(key))]
    /\ UNCHANGED <<storeVars, socketVars, ingest, query, vItem, vResult>>

\* processData: the chart state of a response, "No Data" when it holds no
\* bucket.
processData(window, empty) ==
    [label |-> IF empty THEN "No Data" ELSE "Usage Trend", timeWindow |-> window]

\* The fetch of run r answered ok: setChartData, success, the loop ends,
\* setIsLoading(false).
FetchSucceeded(r, empty) ==
    /\ r \in 1..Len(chart.runs)
    /\ chart.runs[r].pc = "fetch"
    /\ chart' = [chart EXCEPT
          !.chartData = processData(chart.runs[r].timeWindow, empty),
          !.isLoading = FALSE,
          !.runs[r].success = TRUE,
          !.runs[r].pc = "done"]
    /\ UNCHANGED <<storeVars, socketVars, ingest, query, vItem, vResult>>

\* The fetch of run r failed (rejected, or answered not ok): the catch
\* waits before the next attempt, or after the last one sets the "API
\* Error" chart, the loop ends, setIsLoading(false).
FetchFailed(r) ==
    /\ r \in 1..Len(chart.runs)
    /\ chart.runs[r].pc = "fetch"
    /\ IF chart.runs[r].attempts < maxRetries
         THEN chart' = [chart EXCEPT !.runs[r].pc = "delay"]
         ELSE chart' = [chart EXCEPT
                  !.chartData = [label |-> "API Error",
                                 timeWindow |-> chart.runs[r].timeWindow],
                  !.isLoading = FALSE,
                  !.runs[r].pc = "done"]
    /\ UNCHANGED <<storeVars, socketVars, ingest, query, vItem, vResult>>

\* The delay of run r is over: attempts++, the next fetch.
RetryDelayOver(r) ==
    /\ r \in 1..Len(chart.runs)
    /\ chart.runs[r].pc = "delay"
    /\ chart' = [chart EXCEPT !.runs[r].pc = "fetch", !.runs[r].attempts = @ + 1]
    /\ UNCHANGED <<storeVars, socketVars, ingest, query, vItem, vResult>>

NextT ==
    \/ MountChart
    \/ \E key \in WindowOptions : handleWindowChange(key)
    \/ \E r \in 1..(1 + MaxSelections), empty \in BOOLEAN : FetchSucceeded(r, empty)
    \/ \E r \in 1..(1 + MaxSelections) : FetchFailed(r)
    \/ \E r \in 1..(1 + MaxSelections) : RetryDelayOver(r)

SpecT == Init /\ [][NextT]_vars

\* Every fetchTrends that was started has ended.
AllRunsEnded ==
    /\ chart.runs # <<>>
    /\ \A r \in 1..Len(chart.runs) : chart.runs[r].pc = "done"

\* The run of the window selected last.
LastRun == chart.runs[Len(chart.runs)]

\* C30, as claimed: a fetchTrends makes at most 3 attempts and none after a
\* successful one, and once the fetches have ended the loading flag is
\* cleared and the chart shows "API Error" exactly when the 3 attempts for
\* the selected window failed.
C30_TrendFetchPerSelection ==
    /\ \A r \in 1..Len(chart.runs) :
          /\ chart.runs[r].attempts <= maxRetries
          /\ chart.runs[r].success => chart.runs[r].pc = "done"
    /\ AllRunsEnded
       => /\ ~chart.isLoading
          /\ chart.chartData.label = "API Error"
             <=> (~LastRun.success /\ LastRun.attempts = maxRetries)

\* What holds of C30: each fetchTrends on its own makes at most 3 attempts,
\* ends at its first success or third failure with the loading flag cleared,
\* and sets the "API Error" chart at that step exactly when it is the third
\* failure.
C30_EachRunOnItsOwn ==
    /\ [](\A r \in 1..Len(chart.runs) :
             /\ chart.runs[r].attempts <= maxRetries
             /\ chart.runs[r].success => chart.runs[r].pc = "done")
    /\ [][\A r \in 1..Len(chart.runs) :
            (chart.runs[r].pc # "done" /\ chart'.runs[r].pc = "done")
            => /\ ~chart'.isLoading
               /\ chart'.runs[r].success \/ chart'.runs[r].attempts = maxRetries
               /\ chart'.chartData.label = "API Error" <=> ~chart'.runs[r].success]_vars

=============================================================================
